---- MODULE Spec2Model ----
(***************************************************************************)
(* Consulting-Report-Auto-Factory: the tool-calling analysis engine of     *)
(* DataAnalystAgent (agents/data_analyst_agent.py), the tool catalog it    *)
(* drives (analysis_tools_v2.py) and the facts it compiles (models.py).    *)
(*                                                                         *)
(* Values.  A JSON scalar, a dataframe cell and a tool argument are all    *)
(* records [t, n, s]: t is "num", "str", "date" (a pandas Timestamp, n the *)
(* day number counted from 1970-01-01), "nan" (NaN / NaT / None) or "list" *)
(* (an unhashable JSON array).  A Python float is a reduced fraction       *)
(* [num, den]; den = 0 is NaN.                                             *)
(***************************************************************************)
EXTENDS Integers, Sequences, FiniteSets, TLC

VARIABLES
    dataframes,        \* Dict[str, DataFrame] handed to _tool_mode_analysis
    max_tool_rounds,   \* DataAnalystAgent.max_tool_rounds
    pc,                \* position inside _tool_mode_analysis
    round_num,         \* loop iterations of `for round_num in range(...)` begun
    llm_calls,         \* calls made to llm_client.chat_with_tools
    response,          \* the Message returned by the last chat_with_tools call
    messages,          \* the message history sent to the model
    all_tool_results,  \* the accumulator of {tool, input, result}
    executed,          \* every _execute_tool invocation, in order: <<round, block id>>
    cursor,            \* index of the accumulator entry fact conversion handles next
    kpis,              \* List[KPI] under construction
    tables,            \* List[NamedTable] under construction
    returned,          \* the AnalysisResult returned, or NoResult
    raised,            \* the exception that left _tool_mode_analysis, or "none"
    exit_reason,       \* how the tool-calling loop was left, "" while it runs
    plan,              \* the AnalysisPlan given to _tool_mode_analysis
    repertoire,        \* the content blocks the stubbed model may answer with
    runs,              \* calls of _tool_mode_analysis begun on this agent
    prev,              \* accumulator and facts of the previous finished call
    fn_call,           \* a library function applied on its own: its name and arguments
    fn_result,         \* what that application returned
    stage,             \* position inside run_pipeline
    disk,              \* the files of input_dir, the brief file and reports_dir
    brief,             \* the brief text read by read_brief
    schemas,           \* Dict[str, SchemaInfo] built by load_with_schema
    column_roles,      \* the mapping returned by assign_all_roles
    analysis_result,   \* the AnalysisResult run_pipeline holds after the analysis
    chat_calls,        \* the calls run_pipeline's agents made to llm_client.chat
    failure,           \* the exception that left run_pipeline, or "none"
    started,           \* the stages of run_pipeline begun so far, in order
    loaded_bytes       \* the bytes each input file had when read_csv read it

\* the state of the analysis engine
engine == <<dataframes, max_tool_rounds, pc, round_num, llm_calls, response, messages,
            all_tool_results, executed, cursor, kpis, tables, returned, raised,
            exit_reason, plan, repertoire, runs, prev>>

\* the state outside the analysis engine
outside == <<fn_call, fn_result, stage, disk, brief, schemas, column_roles,
             analysis_result, chat_calls, failure, started, loaded_bytes>>

vars == <<engine, outside>>

NoCall == [fn |-> ""]
NoFiles == [none |-> TRUE]
HarnessIdle == fn_call = NoCall /\ fn_result = NoCall
\* run_pipeline has not been called
PipelineIdle ==
    /\ stage = "idle"
    /\ disk = NoFiles
    /\ brief = ""
    /\ schemas = NoFiles
    /\ column_roles = NoFiles
    /\ analysis_result = NoFiles
    /\ chat_calls = <<>>
    /\ failure = "none"
    /\ started = <<>>
    /\ loaded_bytes = NoFiles
OutsideIdle == HarnessIdle /\ PipelineIdle
pipeline == <<stage, disk, brief, schemas, column_roles, analysis_result, chat_calls,
              failure, started, loaded_bytes>>
harness == <<fn_call, fn_result>>

-----------------------------------------------------------------------------
(* Bounds of the model *)

MaxRounds == 2      \* max_tool_rounds ranges over 0..MaxRounds
MaxBlocks == 2      \* content blocks of one model response
MaxTotalBlocks == 2 \* content blocks of all tool_use responses of one run
MaxRuns == 2        \* calls of _tool_mode_analysis on one agent (rerun specification)
MaxRows == 3        \* rows of a table handed to a library function on its own
MaxTopN == 3        \* top_n ranges over 0..MaxTopN and the default

-----------------------------------------------------------------------------
(* Scalars *)

Num(v)  == [t |-> "num",  n |-> v, s |-> ""]
Str(x)  == [t |-> "str",  n |-> 0, s |-> x]
Date(d) == [t |-> "date", n |-> d, s |-> ""]
NaN     == [t |-> "nan",  n |-> 0, s |-> ""]
JList   == [t |-> "list", n |-> 0, s |-> ""]

RECURSIVE GCD(_, _)
GCD(a, b) == IF b = 0 THEN a ELSE GCD(b, a % b)

NaNF == [num |-> 0, den |-> 0]
\* float(n / d) for naturals n, d
Flt(n, d) == IF d = 0 THEN NaNF
             ELSE LET g == GCD(n, d) IN [num |-> n \div g, den |-> d \div g]

RECURSIVE SumSeq(_)
SumSeq(q) == IF q = <<>> THEN 0 ELSE Head(q) + SumSeq(Tail(q))

RECURSIVE InsertSorted(_, _)
InsertSorted(x, q) ==
    IF q = <<>> THEN <<x>>
    ELSE IF x < Head(q) THEN <<x>> \o q
    ELSE <<Head(q)>> \o InsertSorted(x, Tail(q))

RECURSIVE SortInts(_)
SortInts(q) == IF q = <<>> THEN <<>> ELSE InsertSorted(Head(q), SortInts(Tail(q)))

MinOf(q) == IF q = <<>> THEN NaNF ELSE Flt(SortInts(q)[1], 1)
MaxOf(q) == IF q = <<>> THEN NaNF ELSE Flt(SortInts(q)[Len(q)], 1)
MeanOf(q) == Flt(SumSeq(q), Len(q))
MedianOf(q) ==
    IF q = <<>> THEN NaNF
    ELSE LET srt == SortInts(q)
             k == Len(q)
         IN IF k % 2 = 1 THEN Flt(srt[(k + 1) \div 2], 1)
            ELSE Flt(srt[k \div 2] + srt[k \div 2 + 1], 2)

-----------------------------------------------------------------------------
(* Tables: what load_with_schema hands over.  coerce_dates has already     *)
(* turned the date-like column order_date into datetime64.                 *)

OrdersTable ==
    [columns |-> <<"order_date", "amount", "category">>,
     dtypes  |-> [order_date |-> "datetime64[ns]", amount |-> "float64",
                  category |-> "object"],
     rows    |-> << [order_date |-> Date(0),  amount |-> Num(10), category |-> Str("a")],
                    [order_date |-> Date(3),  amount |-> Num(5),  category |-> Str("a")],
                    [order_date |-> Date(11), amount |-> Num(1),  category |-> Str("b")],
                    [order_date |-> NaN,      amount |-> NaN,     category |-> Str("c")] >>]

CustomersTable ==
    [columns |-> <<"customer_id", "is_churned", "lifetime_value">>,
     dtypes  |-> [customer_id |-> "int64", is_churned |-> "int64",
                  lifetime_value |-> "float64"],
     rows    |-> << [customer_id |-> Num(1), is_churned |-> Num(1), lifetime_value |-> Num(100)],
                    [customer_id |-> Num(2), is_churned |-> Num(0), lifetime_value |-> Num(50)],
                    [customer_id |-> Num(3), is_churned |-> Num(1), lifetime_value |-> Num(30)],
                    [customer_id |-> Num(4), is_churned |-> Num(1), lifetime_value |-> NaN] >>]

\* load_csvs keys the tables by file name
LoadedTables == ("orders.csv" :> OrdersTable) @@ ("customers.csv" :> CustomersTable)

ColumnSet(df) == {df.columns[i] : i \in 1..Len(df.columns)}
\* df[col] as a sequence of cells
Column(df, col) == [i \in 1..Len(df.rows) |-> df.rows[i][col]]

\* `column not in df.columns`: an unhashable key raises TypeError
HasColumn(df, arg) == arg.t = "str" /\ arg.s \in ColumnSet(df)

RECURSIVE NumericValues(_)
\* pd.to_numeric(series, errors='coerce').dropna() of a numeric or string column
\* as a sequence of numbers: NaN and unparseable strings are dropped
NumericValues(cells) ==
    IF cells = <<>> THEN <<>>
    ELSE (IF Head(cells).t = "num" THEN <<Head(cells).n>> ELSE <<>>)
         \o NumericValues(Tail(cells))

\* the exception object of a `raise`: a record with the single field exc
Raise(msg) == [exc |-> msg]
Raises(r) == "exc" \in DOMAIN r
error(msg) == [error |-> msg]

\* str(x) of a tool argument inside an f-string
StrOfArg(arg) == IF arg.t = "str" THEN arg.s
                 ELSE IF arg.t = "num" THEN ToString(arg.n)
                 ELSE IF arg.t = "list" THEN "[]" ELSE "None"

-----------------------------------------------------------------------------
(* analysis_tools_v2: the tool catalog *)

\* the statistics of the cleaned revenue series
RevenueStats(revenue_data) ==
    [total_revenue   |-> Flt(SumSeq(revenue_data), 1),
     average_revenue |-> MeanOf(revenue_data),
     median_revenue  |-> MedianOf(revenue_data),
     min_revenue     |-> MinOf(revenue_data),
     max_revenue     |-> MaxOf(revenue_data),
     count           |-> Len(revenue_data)]

compute_revenue_summary(df, amount_column) ==
    IF amount_column.t = "list" THEN Raise("unhashable type: 'list'")
    ELSE IF ~HasColumn(df, amount_column)
    THEN error("Column '" \o StrOfArg(amount_column) \o "' not found in dataframe")
    ELSE RevenueStats(NumericValues(Column(df, amount_column.s)))

\* the order groupby gives its keys: strings alphabetically, numbers by value
StrRank(x) == CASE x = "" -> 0 [] x = "a" -> 1 [] x = "b" -> 2 [] x = "c" -> 3 [] OTHER -> 4
CellKey(c) == IF c.t = "str" THEN StrRank(c.s) ELSE c.n

RECURSIVE InsertCell(_, _)
InsertCell(c, q) ==
    IF q = <<>> THEN <<c>>
    ELSE IF c = Head(q) THEN q
    ELSE IF CellKey(c) < CellKey(Head(q)) THEN <<c>> \o q
    ELSE <<Head(q)>> \o InsertCell(c, Tail(q))

RECURSIVE GroupKeys(_)
\* the sorted distinct non-null values of a column (groupby drops NaN keys)
GroupKeys(cells) ==
    IF cells = <<>> THEN <<>>
    ELSE IF Head(cells).t = "nan" THEN GroupKeys(Tail(cells))
    ELSE InsertCell(Head(cells), GroupKeys(Tail(cells)))

RECURSIVE GroupMax(_, _, _, _)
\* the largest single cell of the group instead of the group's sum
GroupMax(keys, metric, k, i) ==
    IF i > Len(keys) THEN 0
    ELSE IF keys[i] = k /\ metric[i].t = "num"
              /\ metric[i].n > GroupMax(keys, metric, k, i + 1)
    THEN metric[i].n
    ELSE GroupMax(keys, metric, k, i + 1)

RECURSIVE GroupSum(_, _, _, _)
\* sum of the numeric cells of metric over the rows i.. whose key cell is k
GroupSum(keys, metric, k, i) ==
    IF i > Len(keys) THEN 0
    ELSE (IF keys[i] = k /\ metric[i].t = "num" THEN metric[i].n ELSE 0)
         + GroupSum(keys, metric, k, i + 1)

\* index of the first largest total of a non-empty sequence of [cell, total]
FirstLargest(items) ==
    CHOOSE i \in 1..Len(items) :
        /\ \A j \in 1..Len(items) : items[j].total <= items[i].total
        /\ \A j \in 1..(i - 1) : items[j].total < items[i].total

RemoveAt(q, i) == SubSeq(q, 1, i - 1) \o SubSeq(q, i + 1, Len(q))

RECURSIVE nlargest(_, _)
\* Series.nlargest(n): descending by value, ties in their original order
nlargest(items, n) ==
    IF n <= 0 \/ items = <<>> THEN <<>>
    ELSE LET i == FirstLargest(items)
         IN <<items[i]>> \o nlargest(RemoveAt(items, i), n - 1)

\* str(cat) of a group key
StrOfKey(c) == IF c.t = "str" THEN c.s ELSE ToString(c.n)

\* df.groupby(category_column)[metric_column].sum()
GroupTotals(keys, metric, groups) ==
    [g \in 1..Len(groups) |->
        [cell |-> groups[g], total |-> GroupSum(keys, metric, groups[g], 1)]]
groupby_sum(keys, metric) == GroupTotals(keys, metric, GroupKeys(keys))

TopCategoryRows(result) ==
    [r \in 1..Len(result) |->
        [category |-> StrOfKey(result[r].cell), total |-> Flt(result[r].total, 1)]]

analyze_top_categories(df, category_column, metric_column, top_n) ==
    IF category_column.t = "list" \/ metric_column.t = "list"
    THEN Raise("unhashable type: 'list'")
    ELSE IF ~HasColumn(df, category_column)
    THEN error("Column '" \o StrOfArg(category_column) \o "' not found")
    ELSE IF ~HasColumn(df, metric_column)
    THEN error("Column '" \o StrOfArg(metric_column) \o "' not found")
    ELSE IF df.dtypes[metric_column.s] \notin {"int64", "float64"}
    THEN error("Cannot use method 'nlargest' with this dtype")
    ELSE IF top_n.t # "num"
    THEN error("'<=' not supported between instances of 'str' and 'int'")
    ELSE [top_categories  |->
              TopCategoryRows(nlargest(groupby_sum(Column(df, category_column.s),
                                                   Column(df, metric_column.s)),
                                       top_n.n)),
          category_column |-> category_column.s,
          metric_column   |-> metric_column.s]

\* Series.astype(bool) of one cell
Truthy(c) == CASE c.t = "num" -> c.n # 0
               [] c.t = "str" -> c.s # ""
               [] OTHER       -> TRUE

ChurnStats(total, churned) ==
    [total_customers   |-> total,
     churned_customers |-> churned,
     active_customers  |-> total - churned,
     churn_rate        |-> IF total > 0 THEN Flt(churned * 100, total) ELSE Flt(0, 1)]
CountTrue(churn_data) == Cardinality({i \in 1..Len(churn_data) : Truthy(churn_data[i])})

calculate_churn_metrics(df, churn_column) ==
    IF churn_column.t = "list" THEN Raise("unhashable type: 'list'")
    ELSE IF ~HasColumn(df, churn_column)
    THEN error("Column '" \o StrOfArg(churn_column) \o "' not found")
    ELSE IF df.dtypes[churn_column.s] = "datetime64[ns]"
    THEN error("Cannot cast DatetimeArray to dtype bool")
    ELSE ChurnStats(Len(df.rows), CountTrue(Column(df, churn_column.s)))

LtvStats(ltv_data) ==
    [average_ltv    |-> MeanOf(ltv_data),
     median_ltv     |-> MedianOf(ltv_data),
     total_ltv      |-> Flt(SumSeq(ltv_data), 1),
     min_ltv        |-> MinOf(ltv_data),
     max_ltv        |-> MaxOf(ltv_data),
     customer_count |-> Len(ltv_data)]

calculate_customer_ltv(df, ltv_column) ==
    IF ltv_column.t = "list" THEN Raise("unhashable type: 'list'")
    ELSE IF ~HasColumn(df, ltv_column)
    THEN error("Column '" \o StrOfArg(ltv_column) \o "' not found")
    ELSE LtvStats(NumericValues(Column(df, ltv_column.s)))

RECURSIVE FirstNonNull(_, _)
\* series.dropna().head(k).tolist()
FirstNonNull(cells, k) ==
    IF k = 0 \/ cells = <<>> THEN <<>>
    ELSE IF Head(cells).t = "nan" THEN FirstNonNull(Tail(cells), k)
    ELSE <<Head(cells)>> \o FirstNonNull(Tail(cells), k - 1)

SampleValues == 3

NullCount(cells) == Cardinality({i \in 1..Len(cells) : cells[i].t = "nan"})
ColumnSummary(df, col, cells) ==
    [name          |-> col,
     dtype         |-> df.dtypes[col],
     null_count    |-> NullCount(cells),
     sample_values |-> IF Len(df.rows) > 0 THEN FirstNonNull(cells, SampleValues)
                       ELSE <<>>]

get_dataframe_summary(df) ==
    [row_count    |-> Len(df.rows),
     column_count |-> Len(df.columns),
     columns      |-> [c \in 1..Len(df.columns) |->
                          ColumnSummary(df, df.columns[c], Column(df, df.columns[c]))]]

(* The calendar of 1970, the year of the modelled dates: the day numbers   *)
(* of the month ends, and 1970-01-01 being a Thursday.                     *)
MonthEnds == <<30, 58, 89, 119, 150, 180, 211, 242, 272, 303, 333, 364>>
MonthOf(d) == CHOOSE m \in 1..12 : d <= MonthEnds[m] /\ (m = 1 \/ d > MonthEnds[m - 1])
DayOfMonth(d) == IF MonthOf(d) = 1 THEN d + 1 ELSE d - MonthEnds[MonthOf(d) - 1]
TwoDigits(k) == IF k < 10 THEN "0" \o ToString(k) ELSE ToString(k)
\* str(timestamp.date())
IsoDate(d) == "1970-" \o TwoDigits(MonthOf(d)) \o "-" \o TwoDigits(DayOfMonth(d))
\* 0 = Monday .. 6 = Sunday
Weekday(d) == (d + 3) % 7

ValidPeriods == {"D", "W", "M"}
\* the label of the resample bin holding day d: the day, the Sunday closing
\* its week (W-SUN), the end of its month
BinLabel(period, d) ==
    CASE period = "D" -> d
      [] period = "W" -> d + (6 - Weekday(d))
      [] period = "M" -> MonthEnds[MonthOf(d)]
NextBin(period, l) ==
    CASE period = "D" -> l + 1
      [] period = "W" -> l + 7
      [] period = "M" -> MonthEnds[MonthOf(l) + 1]

RECURSIVE Bins(_, _, _)
\* every bin label from lo to hi: resample keeps the empty bins in between
Bins(period, lo, hi) ==
    IF lo > hi THEN <<>> ELSE <<lo>> \o Bins(period, NextBin(period, lo), hi)

NaT == 0 - 1
\* pd.to_datetime(cell, errors='coerce') as a day number: a number counts
\* nanoseconds from the epoch, a string that is no date becomes NaT
to_datetime(c) == CASE c.t = "date" -> c.n
                    [] c.t = "num"  -> 0
                    [] OTHER        -> NaT

RECURSIVE BinSum(_, _, _, _, _)
\* sum of the numeric metric cells of the rows i.. whose date falls in bin l
BinSum(period, days, metric, l, i) ==
    IF i > Len(days) THEN 0
    ELSE (IF days[i] # NaT /\ BinLabel(period, days[i]) = l /\ metric[i].t = "num"
          THEN metric[i].n ELSE 0)
         + BinSum(period, days, metric, l, i + 1)

\* df_copy[date_column] after pd.to_datetime: NaT marks the rows dropna drops
ParsedDays(cells) == [i \in 1..Len(cells) |-> to_datetime(cells[i])]
HasDates(days) == \E i \in 1..Len(days) : days[i] # NaT
MinDay(days) == CHOOSE d \in {days[i] : i \in 1..Len(days)} \ {NaT} :
                    \A i \in 1..Len(days) : days[i] = NaT \/ d <= days[i]
MaxDay(days) == CHOOSE d \in {days[i] : i \in 1..Len(days)} \ {NaT} :
                    \A i \in 1..Len(days) : days[i] = NaT \/ d >= days[i]

SeriesRows(labels, period, days, metric) ==
    [b \in 1..Len(labels) |->
        [period |-> IsoDate(labels[b]),
         value  |-> Flt(BinSum(period, days, metric, labels[b], 1), 1)]]

\* df_copy[metric_column].resample(period).sum() as a list of buckets
resample_sum(period, days, metric) ==
    IF ~HasDates(days) THEN <<>>
    ELSE SeriesRows(Bins(period, BinLabel(period, MinDay(days)),
                         BinLabel(period, MaxDay(days))),
                    period, days, metric)

compute_time_series(df, date_column, metric_column, period) ==
    IF date_column.t = "list" \/ metric_column.t = "list"
    THEN Raise("unhashable type: 'list'")
    ELSE IF ~HasColumn(df, date_column)
    THEN error("Column '" \o StrOfArg(date_column) \o "' not found")
    ELSE IF ~HasColumn(df, metric_column)
    THEN error("Column '" \o StrOfArg(metric_column) \o "' not found")
    ELSE IF date_column = metric_column
    THEN error("'" \o metric_column.s \o "'")
    ELSE IF period.t # "str" \/ period.s \notin ValidPeriods
    THEN error("Invalid frequency: " \o StrOfArg(period))
    ELSE IF HasDates(ParsedDays(Column(df, date_column.s)))
            /\ df.dtypes[metric_column.s] \notin {"int64", "float64"}
    THEN error("could not convert to float")
    ELSE [time_series |-> resample_sum(period.s, ParsedDays(Column(df, date_column.s)),
                                       Column(df, metric_column.s)),
          period_type |-> period.s,
          metric      |-> metric_column.s]

-----------------------------------------------------------------------------
(* DataAnalystAgent._execute_tool *)

ToolNames == {"compute_revenue_summary", "analyze_top_categories",
              "calculate_churn_metrics", "compute_time_series",
              "calculate_customer_ltv", "get_dataframe_summary"}

\* the keyword parameters of each tool function after df
Required(tool_name) ==
    CASE tool_name = "compute_revenue_summary" -> {"amount_column"}
      [] tool_name = "analyze_top_categories"  -> {"category_column", "metric_column"}
      [] tool_name = "calculate_churn_metrics" -> {"churn_column"}
      [] tool_name = "compute_time_series"     -> {"date_column", "metric_column"}
      [] tool_name = "calculate_customer_ltv"  -> {"ltv_column"}
      [] tool_name = "get_dataframe_summary"   -> {}
Optional(tool_name) ==
    CASE tool_name = "analyze_top_categories" -> {"top_n"}
      [] tool_name = "compute_time_series"    -> {"period"}
      [] OTHER                                -> {}

DefaultTopN == 5
\* dict.get(key, default)
Get(d, key, default) == IF key \in DOMAIN d THEN d[key] ELSE default

\* func(df, **func_input): Python binds the keywords, then the tool runs
CallTool(tool_name, df, func_input) ==
    IF (DOMAIN func_input) \ (Required(tool_name) \cup Optional(tool_name)) # {}
    THEN Raise(tool_name \o "() got an unexpected keyword argument")
    ELSE IF Required(tool_name) \ (DOMAIN func_input) # {}
    THEN Raise(tool_name \o "() missing required positional argument")
    ELSE CASE tool_name = "compute_revenue_summary" ->
                compute_revenue_summary(df, func_input.amount_column)
           [] tool_name = "analyze_top_categories" ->
                analyze_top_categories(df, func_input.category_column,
                                       func_input.metric_column,
                                       Get(func_input, "top_n", Num(DefaultTopN)))
           [] tool_name = "calculate_churn_metrics" ->
                calculate_churn_metrics(df, func_input.churn_column)
           [] tool_name = "compute_time_series" ->
                compute_time_series(df, func_input.date_column, func_input.metric_column,
                                    Get(func_input, "period", Str("M")))
           [] tool_name = "calculate_customer_ltv" ->
                calculate_customer_ltv(df, func_input.ltv_column)
           [] tool_name = "get_dataframe_summary" ->
                get_dataframe_summary(df)

\* `except Exception as e: return {"error": ...}` around the tool call
CatchToolError(result) ==
    IF Raises(result) THEN error("Tool execution error: " \o result.exc) ELSE result

\* tool_input without its dataframe_name
FuncInput(tool_input) ==
    [k \in (DOMAIN tool_input) \ {"dataframe_name"} |-> tool_input[k]]

LookupAndCall(tool_name, tool_input, dfs, df_name) ==
    IF df_name.t = "list"
    THEN Raise("TypeError: unhashable type: 'list'")    \* dataframes.get(df_name)
    ELSE IF df_name.t # "str" \/ df_name.s \notin DOMAIN dfs
    THEN error("Dataframe '" \o StrOfArg(df_name) \o "' not found")
    ELSE IF tool_name \notin ToolNames
    THEN error("Unknown tool: " \o tool_name)
    ELSE CatchToolError(CallTool(tool_name, dfs[df_name.s], FuncInput(tool_input)))

\* The result object, or Raise(..) when the exception leaves _execute_tool.
_execute_tool(tool_name, tool_input, dfs) ==
    LookupAndCall(tool_name, tool_input, dfs, Get(tool_input, "dataframe_name", Str("")))

\* json.dumps(result) succeeds unless the result holds a value json cannot
\* encode: the sample values of a datetime column are pandas Timestamps
JsonSerializable(result) ==
    "columns" \notin DOMAIN result
    \/ \A c \in 1..Len(result.columns) :
          \A v \in 1..Len(result.columns[c].sample_values) :
              result.columns[c].sample_values[v].t # "date"

\* the JSON text of a serializable result, kept as the value it encodes
JsonDumps(result) == [json |-> result]

-----------------------------------------------------------------------------
(* The stubbed model: llm_client.chat_with_tools answers with any content  *)
(* built from the repertoire of the run.                                   *)

ToolUse(name, input) == [type |-> "tool_use", id |-> "", name |-> name, input |-> input]
TextBlock(text) == [type |-> "text", text |-> text]

GetSummaryCustomers ==
    ToolUse("get_dataframe_summary", [dataframe_name |-> Str("customers.csv")])
GetSummaryOrders ==
    ToolUse("get_dataframe_summary", [dataframe_name |-> Str("orders.csv")])
RevenueOk ==
    ToolUse("compute_revenue_summary",
            [dataframe_name |-> Str("orders.csv"), amount_column |-> Str("amount")])
RevenueNoColumn ==
    ToolUse("compute_revenue_summary",
            [dataframe_name |-> Str("orders.csv"), amount_column |-> Str("price")])
RevenueNoDataframe ==
    ToolUse("compute_revenue_summary",
            [dataframe_name |-> Str("sales.csv"), amount_column |-> Str("amount")])
RevenueExtraArgument ==
    ToolUse("compute_revenue_summary",
            [dataframe_name |-> Str("orders.csv"), amount_column |-> Str("amount"),
             currency |-> Str("EUR")])
RevenueListName ==
    ToolUse("compute_revenue_summary",
            [dataframe_name |-> JList, amount_column |-> Str("amount")])
UnknownTool ==
    ToolUse("plot_chart", [dataframe_name |-> Str("orders.csv")])
TopCategories ==
    ToolUse("analyze_top_categories",
            [dataframe_name |-> Str("orders.csv"), category_column |-> Str("category"),
             metric_column |-> Str("amount")])
ChurnOk ==
    ToolUse("calculate_churn_metrics",
            [dataframe_name |-> Str("customers.csv"), churn_column |-> Str("is_churned")])
LtvOk ==
    ToolUse("calculate_customer_ltv",
            [dataframe_name |-> Str("customers.csv"), ltv_column |-> Str("lifetime_value")])
TimeSeriesDaily ==
    ToolUse("compute_time_series",
            [dataframe_name |-> Str("orders.csv"), date_column |-> Str("order_date"),
             metric_column |-> Str("amount"), period |-> Str("D")])
TimeSeriesWeekly ==
    ToolUse("compute_time_series",
            [dataframe_name |-> Str("orders.csv"), date_column |-> Str("order_date"),
             metric_column |-> Str("amount"), period |-> Str("W")])
\* the model names a column that holds no dates: every row is dropped
TimeSeriesNoDates ==
    ToolUse("compute_time_series",
            [dataframe_name |-> Str("orders.csv"), date_column |-> Str("category"),
             metric_column |-> Str("amount")])
Thinking == TextBlock("Let me look at the data.")

LtvNoColumn ==
    ToolUse("calculate_customer_ltv",
            [dataframe_name |-> Str("customers.csv"), ltv_column |-> Str("ltv")])

FaultRepertoire == {GetSummaryOrders, RevenueListName, RevenueOk, Thinking}
ErrorRepertoire == {RevenueNoColumn, RevenueNoDataframe, RevenueExtraArgument, UnknownTool,
                    GetSummaryCustomers}
FactRepertoire == {RevenueOk, TopCategories, ChurnOk, LtvOk, LtvNoColumn,
                   GetSummaryCustomers}
SeriesRepertoire == {TimeSeriesDaily, TimeSeriesWeekly, TimeSeriesNoDates}
RerunRepertoire == {RevenueOk, TimeSeriesWeekly, Thinking}
Repertoires == {FaultRepertoire, ErrorRepertoire, FactRepertoire, SeriesRepertoire}

\* the blocks of a response that asks for no tool run, or stops mid-request
StopContents == {<<Thinking>>, <<Thinking, RevenueOk>>}
UnexpectedStopReasons == {"max_tokens", "stop_sequence"}

\* every content of at most k blocks over the blocks of rep
Contents(rep, k) == UNION {[1..n -> rep] : n \in 0..k}

\* the model numbers the tool_use blocks of its answer
WithIds(content, round) ==
    [i \in 1..Len(content) |->
        IF content[i].type = "tool_use"
        THEN [content[i] EXCEPT !.id = "toolu_" \o ToString(round) \o "_" \o ToString(i)]
        ELSE content[i]]

RECURSIVE BlocksUsed(_)
\* content blocks of the assistant messages of a history
BlocksUsed(msgs) ==
    IF msgs = <<>> THEN 0
    ELSE (IF Head(msgs).role = "assistant" THEN Len(Head(msgs).content) ELSE 0)
         + BlocksUsed(Tail(msgs))

GivenPlan == [title |-> "Revenue review", objectives |-> <<"Grow revenue">>, steps |-> <<>>]
user_message(p) == "Analyze the following data to address the business objectives. Title: "
                   \o p.title
NoResponse == [stop_reason |-> "", content |-> <<>>]
NoResult == [none |-> TRUE]
NoPrev == [none |-> TRUE]

-----------------------------------------------------------------------------
(* Fact conversion: the body of `for tool_result in all_tool_results` *)

KPI(name, value, explanation, related_columns) ==
    [name |-> name, value |-> value, explanation |-> explanation,
     related_columns |-> related_columns]
NamedTable(title, columns, rows, description) ==
    [title |-> title, columns |-> columns, rows |-> rows, description |-> description]
Facts(k, t) == [kpis |-> k, tables |-> t]

\* tool_result["input"].get(key, "") of an argument that is a string
InputStr(input, key) == Get(input, key, Str("")).s

\* the error check left out
IsError_never(result) == FALSE

\* `"error" in result`
IsError(result) == "error" \in DOMAIN result

\* the second KPI forgotten
RevenueFacts_total_only(tool_result) ==
    [kpis |-> <<[name |-> "Total Revenue", value |-> tool_result.result.total_revenue,
                 explanation |-> "Total revenue from all transactions",
                 related_columns |-> <<Get(tool_result.input, "amount_column", Str("")).s>>]>>,
     tables |-> <<>>]

RevenueFacts(tool_result) ==
    LET result == tool_result.result
        column == InputStr(tool_result.input, "amount_column")
    IN Facts((IF "total_revenue" \in DOMAIN result
              THEN <<KPI("Total Revenue", result.total_revenue,
                         "Total revenue from all transactions", <<column>>)>>
              ELSE <<>>)
             \o (IF "average_revenue" \in DOMAIN result
                 THEN <<KPI("Average Revenue", result.average_revenue,
                            "Average revenue per transaction", <<column>>)>>
                 ELSE <<>>),
             <<>>)

TopCategoriesFacts(tool_result) ==
    LET result == tool_result.result
    IN IF "top_categories" \in DOMAIN result
       THEN LET top_cats == result.top_categories
            IN Facts(<<>>,
                     <<NamedTable("Top " \o Get(result, "category_column", "Categories"),
                                  <<"Category", "Total">>,
                                  [i \in 1..Len(top_cats) |->
                                      <<top_cats[i].category, top_cats[i].total>>],
                                  "Top categories by "
                                      \o Get(result, "metric_column", "metric"))>>)
       ELSE Facts(<<>>, <<>>)

ChurnFacts(tool_result) ==
    LET result == tool_result.result
    IN IF "churn_rate" \in DOMAIN result
       THEN Facts(<<KPI("Churn Rate", result.churn_rate,
                        ToString(Get(result, "churned_customers", 0)) \o " out of "
                            \o ToString(Get(result, "total_customers", 0))
                            \o " customers churned",
                        <<InputStr(tool_result.input, "churn_column")>>)>>,
                  <<>>)
       ELSE Facts(<<>>, <<>>)

LtvFacts(tool_result) ==
    LET result == tool_result.result
        zero == Flt(0, 1)
    IN Facts(IF "average_ltv" \in DOMAIN result
             THEN <<KPI("Average Customer LTV", result.average_ltv,
                        "Average lifetime value across "
                            \o ToString(Get(result, "customer_count", 0)) \o " customers",
                        <<InputStr(tool_result.input, "ltv_column")>>)>>
             ELSE <<>>,
             <<NamedTable("Customer Lifetime Value Distribution",
                          <<"Metric", "Value">>,
                          << <<"Average", Get(result, "average_ltv", zero)>>,
                             <<"Median", Get(result, "median_ltv", zero)>>,
                             <<"Total", Get(result, "total_ltv", zero)>>,
                             <<"Min", Get(result, "min_ltv", zero)>>,
                             <<"Max", Get(result, "max_ltv", zero)>> >>,
                          "LTV statistics")>>)

TimeSeriesRowLimit == 10

\* the slice [:10] left out
TimeSeriesFacts_uncapped(tool_result) ==
    IF "time_series" \in DOMAIN tool_result.result /\ tool_result.result.time_series # <<>>
    THEN [kpis |-> <<>>,
          tables |-> <<[title |-> "Time Series: " \o tool_result.result.metric,
                        columns |-> <<"Period", "Value">>,
                        rows |-> [i \in 1..Len(tool_result.result.time_series) |->
                                    <<tool_result.result.time_series[i].period,
                                      tool_result.result.time_series[i].value>>],
                        description |-> "Time series aggregated by "
                                        \o tool_result.result.period_type]>>]
    ELSE [kpis |-> <<>>, tables |-> <<>>]

TimeSeriesFacts(tool_result) ==
    LET result == tool_result.result
    IN IF "time_series" \in DOMAIN result /\ result.time_series # <<>>
       THEN LET ts_data == result.time_series
                shown == SubSeq(ts_data, 1,
                                IF Len(ts_data) < TimeSeriesRowLimit
                                THEN Len(ts_data) ELSE TimeSeriesRowLimit)
            IN Facts(<<>>,
                     <<NamedTable("Time Series: " \o Get(result, "metric", "Metric"),
                                  <<"Period", "Value">>,
                                  [i \in 1..Len(shown) |->
                                      <<shown[i].period, shown[i].value>>],
                                  "Time series aggregated by "
                                      \o Get(result, "period_type", "period"))>>)
       ELSE Facts(<<>>, <<>>)

\* a conversion that reports what the conversation looked like
ConvertEntry_history_dependent(tool_result) ==
    IF "error" \in DOMAIN tool_result.result THEN [kpis |-> <<>>, tables |-> <<>>]
    ELSE [kpis |-> <<[name |-> tool_result.tool, value |-> Flt(Len(messages), 1),
                      explanation |-> "as reported by the model",
                      related_columns |-> <<>>]>>,
          tables |-> <<>>]

\* the facts one accumulator entry adds
ConvertEntry(tool_result) ==
    LET tool_name == tool_result.tool
    IN IF IsError(tool_result.result) THEN Facts(<<>>, <<>>)
       ELSE CASE tool_name = "compute_revenue_summary" -> RevenueFacts(tool_result)
              [] tool_name = "analyze_top_categories"  -> TopCategoriesFacts(tool_result)
              [] tool_name = "calculate_churn_metrics" -> ChurnFacts(tool_result)
              [] tool_name = "calculate_customer_ltv"  -> LtvFacts(tool_result)
              [] tool_name = "compute_time_series"     -> TimeSeriesFacts(tool_result)
              [] OTHER                                 -> Facts(<<>>, <<>>)

None == NaN
\* AnalysisResult(plan=.., kpis=.., tables=..): the other fields take their defaults
AnalysisResult(p, k, t) ==
    [plan |-> p, kpis |-> k, tables |-> t, charts |-> <<>>, notes |-> None,
     metadata |-> None]

-----------------------------------------------------------------------------
(* DataAnalystAgent._tool_mode_analysis *)

\* a loop that runs one iteration too many
RangeHasNext_inclusive(rounds_begun, limit) == rounds_begun <= limit

\* `for round_num in range(self.max_tool_rounds)` has another iteration
RangeHasNext(rounds_begun, limit) == rounds_begun < limit

\* `response.stop_reason == "end_turn"` and `response.stop_reason == "tool_use"`
IsEndTurn(stop_reason) == stop_reason = "end_turn"
\* every answer that is not "end_turn" taken for a tool request
IsToolUse_lenient(stop_reason) == stop_reason # "end_turn"
IsToolUse(stop_reason) == stop_reason = "tool_use"

ExecutionError == "TypeError raised by _execute_tool"
JsonError == "TypeError raised by json.dumps"

RECURSIVE ExecBlocks(_, _)
\* what executing one tool_use block adds, given the result of the rest
BlockDone(block, result, rest) ==
    [entries |-> <<[tool |-> block.name, input |-> block.input, result |-> result]>>
                 \o rest.entries,
     tool_results |-> <<[type |-> "tool_result", tool_use_id |-> block.id,
                         content |-> JsonDumps(result)]>> \o rest.tool_results,
     ran |-> <<block.id>> \o rest.ran,
     exc |-> rest.exc]

ExecBlock(block, result, later, dfs) ==
    IF Raises(result)
    THEN [entries |-> <<>>, tool_results |-> <<>>, ran |-> <<block.id>>,
          exc |-> ExecutionError]
    ELSE IF ~JsonSerializable(result)
    THEN [entries |-> <<[tool |-> block.name, input |-> block.input,
                         result |-> result]>>,
          tool_results |-> <<>>, ran |-> <<block.id>>, exc |-> JsonError]
    ELSE BlockDone(block, result, ExecBlocks(later, dfs))

(* `for block in response.content`: the entries appended to the            *)
(* accumulator, the tool_result list built, the blocks handed to           *)
(* _execute_tool, and the exception that ended the iteration, if any.      *)
ExecBlocks(content, dfs) ==
    IF content = <<>>
    THEN [entries |-> <<>>, tool_results |-> <<>>, ran |-> <<>>, exc |-> "none"]
    ELSE IF Head(content).type # "tool_use" THEN ExecBlocks(Tail(content), dfs)
    ELSE ExecBlock(Head(content),
                   _execute_tool(Head(content).name, Head(content).input, dfs),
                   Tail(content), dfs)

Init ==
    /\ dataframes = LoadedTables
    /\ max_tool_rounds \in 0..MaxRounds
    /\ plan = GivenPlan
    /\ repertoire \in Repertoires
    /\ pc = "loop"
    /\ round_num = 0
    /\ llm_calls = 0
    /\ response = NoResponse
    /\ messages = <<[role |-> "user", content |-> <<TextBlock(user_message(plan))>>]>>
    /\ all_tool_results = <<>>
    /\ executed = <<>>
    /\ cursor = 1
    /\ kpis = <<>>
    /\ tables = <<>>
    /\ returned = NoResult
    /\ raised = "none"
    /\ exit_reason = ""
    /\ runs = 1
    /\ prev = NoPrev
    /\ OutsideIdle

\* the tool results sent back without the assistant message they answer
HandleResponse_results_only(stop_reason, content, run) ==
    IF IsEndTurn(stop_reason)
    THEN /\ pc' = "convert"
         /\ exit_reason' = "end_turn"
         /\ UNCHANGED <<messages, all_tool_results, executed, raised>>
    ELSE IF IsToolUse(stop_reason)
    THEN /\ all_tool_results' = all_tool_results \o run.entries
         /\ executed' = executed \o run.ran
         /\ IF run.exc = "none"
            THEN /\ messages' = messages \o
                      <<[role |-> "user", content |-> run.tool_results]>>
                 /\ UNCHANGED <<pc, raised, exit_reason>>
            ELSE /\ UNCHANGED messages
                 /\ pc' = "raised"
                 /\ raised' = run.exc
                 /\ exit_reason' = "exception"
    ELSE /\ pc' = "convert"
         /\ exit_reason' = "unexpected"
         /\ UNCHANGED <<messages, all_tool_results, executed, raised>>
\* What the loop body does with the answer: content is response.content and
\* run the outcome of executing its tool_use blocks.
HandleResponse(stop_reason, content, run) ==
    IF IsEndTurn(stop_reason)
    THEN /\ pc' = "convert"
         /\ exit_reason' = "end_turn"
         /\ UNCHANGED <<messages, all_tool_results, executed, raised>>
    ELSE IF IsToolUse(stop_reason)
    THEN /\ all_tool_results' = all_tool_results \o run.entries
         /\ executed' = executed \o run.ran
         /\ IF run.exc = "none"
            THEN /\ messages' = messages \o
                      <<[role |-> "assistant", content |-> content],
                        [role |-> "user", content |-> run.tool_results]>>
                 /\ UNCHANGED <<pc, raised, exit_reason>>
            ELSE /\ messages' = Append(messages,
                                       [role |-> "assistant", content |-> content])
                 /\ pc' = "raised"
                 /\ raised' = run.exc
                 /\ exit_reason' = "exception"
    ELSE /\ pc' = "convert"
         /\ exit_reason' = "unexpected"
         /\ UNCHANGED <<messages, all_tool_results, executed, raised>>

\* One iteration of the loop: the model call and what its answer triggers.
Round(stop_reason, content) ==
    /\ pc = "loop"
    /\ RangeHasNext(round_num, max_tool_rounds)
    /\ response' = [stop_reason |-> stop_reason, content |-> content]
    /\ llm_calls' = llm_calls + 1
    /\ round_num' = round_num + 1
    /\ HandleResponse(stop_reason, content, ExecBlocks(content, dataframes))
    /\ UNCHANGED <<dataframes, max_tool_rounds, plan, repertoire, cursor, kpis, tables,
                   returned, runs, prev>>
    /\ UNCHANGED outside

RoundEndTurn ==
    /\ pc = "loop"
    /\ \E blocks \in StopContents : Round("end_turn", WithIds(blocks, round_num))

\* the blocks the model may still send within the bounds of the model
BlocksLeft == IF MaxTotalBlocks - BlocksUsed(messages) < MaxBlocks
              THEN MaxTotalBlocks - BlocksUsed(messages) ELSE MaxBlocks

RoundToolUse ==
    /\ pc = "loop"
    /\ \E blocks \in Contents(repertoire, BlocksLeft) :
           Round("tool_use", WithIds(blocks, round_num))

RoundUnexpected ==
    /\ pc = "loop"
    /\ \E stop_reason \in UnexpectedStopReasons, blocks \in StopContents :
           Round(stop_reason, WithIds(blocks, round_num))

\* reaching the round cap treated as a failure
LoopExhausted_raises ==
    /\ pc = "loop"
    /\ round_num >= max_tool_rounds
    /\ pc' = "raised"
    /\ raised' = "RuntimeError: max tool rounds reached"
    /\ exit_reason' = "exhausted"
    /\ UNCHANGED <<dataframes, max_tool_rounds, plan, repertoire, round_num, llm_calls,
                   response, messages, all_tool_results, executed, cursor, kpis, tables,
                   returned, runs, prev>>
    /\ UNCHANGED outside

\* range(self.max_tool_rounds) is exhausted: the for statement ends
LoopExhausted ==
    /\ pc = "loop"
    /\ ~RangeHasNext(round_num, max_tool_rounds)
    /\ pc' = "convert"
    /\ exit_reason' = "exhausted"
    /\ UNCHANGED <<dataframes, max_tool_rounds, plan, repertoire, round_num, llm_calls,
                   response, messages, all_tool_results, executed, cursor, kpis, tables,
                   returned, raised, runs, prev>>
    /\ UNCHANGED outside

\* One iteration of `for tool_result in all_tool_results`.
ConvertStep ==
    /\ pc = "convert"
    /\ cursor <= Len(all_tool_results)
    /\ kpis' = kpis \o ConvertEntry(all_tool_results[cursor]).kpis
    /\ tables' = tables \o ConvertEntry(all_tool_results[cursor]).tables
    /\ cursor' = cursor + 1
    /\ UNCHANGED <<dataframes, max_tool_rounds, plan, repertoire, pc, round_num, llm_calls,
                   response, messages, all_tool_results, executed, returned, raised,
                   exit_reason, runs, prev>>
    /\ UNCHANGED outside

\* return AnalysisResult(plan=plan, kpis=kpis, tables=tables)
Return ==
    /\ pc = "convert"
    /\ cursor > Len(all_tool_results)
    /\ returned' = AnalysisResult(plan, kpis, tables)
    /\ pc' = "done"
    /\ UNCHANGED <<dataframes, max_tool_rounds, plan, repertoire, round_num, llm_calls,
                   response, messages, all_tool_results, executed, cursor, kpis, tables,
                   raised, exit_reason, runs, prev>>
    /\ UNCHANGED outside

Next == RoundEndTurn \/ RoundToolUse \/ RoundUnexpected \/ LoopExhausted
        \/ ConvertStep \/ Return

Spec == Init /\ [][Next]_vars

-----------------------------------------------------------------------------
(* The same agent asked again: run_analysis called a second time with the  *)
(* same plan and tables.                                                   *)

InitRerun ==
    /\ dataframes = LoadedTables
    /\ max_tool_rounds \in 0..MaxRounds
    /\ plan = GivenPlan
    /\ repertoire = RerunRepertoire
    /\ pc = "loop"
    /\ round_num = 0
    /\ llm_calls = 0
    /\ response = NoResponse
    /\ messages = <<[role |-> "user", content |-> <<TextBlock(user_message(plan))>>]>>
    /\ all_tool_results = <<>>
    /\ executed = <<>>
    /\ cursor = 1
    /\ kpis = <<>>
    /\ tables = <<>>
    /\ returned = NoResult
    /\ raised = "none"
    /\ exit_reason = ""
    /\ runs = 1
    /\ prev = NoPrev
    /\ OutsideIdle

RunAgain ==
    /\ pc = "done"
    /\ runs < MaxRuns
    /\ runs' = runs + 1
    /\ prev' = [accumulator |-> all_tool_results, history_len |-> Len(messages),
                kpis |-> returned.kpis, tables |-> returned.tables]
    /\ pc' = "loop"
    /\ round_num' = 0
    /\ llm_calls' = 0
    /\ response' = NoResponse
    /\ messages' = <<[role |-> "user", content |-> <<TextBlock(user_message(plan))>>]>>
    /\ all_tool_results' = <<>>
    /\ executed' = <<>>
    /\ cursor' = 1
    /\ kpis' = <<>>
    /\ tables' = <<>>
    /\ returned' = NoResult
    /\ raised' = "none"
    /\ exit_reason' = ""
    /\ UNCHANGED <<dataframes, max_tool_rounds, plan, repertoire>>
    /\ UNCHANGED outside

NextRerun == Next \/ RunAgain

SpecRerun == InitRerun /\ [][NextRerun]_vars

-----------------------------------------------------------------------------
(* analysis_tools: the legacy helpers, and library functions applied on    *)
(* their own to tables drawn from a bounded set.                           *)

\* the engine at rest: no call of _tool_mode_analysis is under way
EngineIdle ==
    /\ dataframes = LoadedTables
    /\ max_tool_rounds = 0
    /\ plan = GivenPlan
    /\ repertoire = {}
    /\ pc = "idle"
    /\ round_num = 0
    /\ llm_calls = 0
    /\ response = NoResponse
    /\ messages = <<>>
    /\ all_tool_results = <<>>
    /\ executed = <<>>
    /\ cursor = 1
    /\ kpis = <<>>
    /\ tables = <<>>
    /\ returned = NoResult
    /\ raised = "none"
    /\ exit_reason = ""
    /\ runs = 0
    /\ prev = NoPrev

\* the orders of n items
Orderings(n) == {f \in [1..n -> 1..n] : \A i, j \in 1..n : f[i] = f[j] => i = j}
Descending(items, f) ==
    \A i \in 1..(Len(items) - 1) : items[f[i]].total >= items[f[i + 1]].total
\* sort_values(value_col, ascending=False): the default kind is quicksort, which
\* is not stable, so equal totals may come out in any order
sort_values_descending(items) ==
    {[i \in 1..Len(items) |-> items[f[i]]] :
        f \in {g \in Orderings(Len(items)) : Descending(items, g)}}

\* DataFrame.head(n); a negative n leaves out the last -n rows
head(q, n) ==
    IF n >= 0 THEN SubSeq(q, 1, IF n < Len(q) THEN n ELSE Len(q))
    ELSE SubSeq(q, 1, IF Len(q) + n > 0 THEN Len(q) + n ELSE 0)

RECURSIVE CountKey(_, _)
CountKey(keys, k) ==
    IF keys = <<>> THEN 0
    ELSE (IF Head(keys) = k THEN 1 ELSE 0) + CountKey(Tail(keys), k)
\* df[category_col].value_counts() before it is ordered
GroupCounts(keys, groups) ==
    [g \in 1..Len(groups) |-> [cell |-> groups[g], total |-> CountKey(keys, groups[g])]]

\* analysis_tools.top_categories: the frames it may return, each a sequence of
\* [cell, total]; value_col is NaN for None
top_categories(df, category_col, value_col, n) ==
    IF Truthy(value_col) /\ value_col.t # "nan"
    THEN {head(sorted, n) :
             sorted \in sort_values_descending(
                            groupby_sum(Column(df, category_col.s),
                                        Column(df, value_col.s)))}
    ELSE {head(sorted, n) :
             sorted \in sort_values_descending(
                            GroupCounts(Column(df, category_col.s),
                                        GroupKeys(Column(df, category_col.s))))}

\* pd.DataFrame({"cat": [...], "value": [...]})
CategoryCells == {Str("a"), Str("b"), NaN}
ValueCells == {Num(1), Num(5), Num(10)}
CatValueRows ==
    UNION {[1..n -> [cat : CategoryCells, value : ValueCells]] : n \in 0..MaxRows}
CatValueTable(rows) ==
    [columns |-> <<"cat", "value">>,
     dtypes  |-> [cat |-> "object", value |-> "int64"],
     rows    |-> rows]
TopNs == (0..MaxTopN) \cup {DefaultTopN}

CallAnalyzeTopCategories ==
    /\ fn_call = NoCall
    /\ \E rows \in CatValueRows, top_n \in TopNs :
          /\ fn_call' = [fn |-> "analyze_top_categories", rows |-> rows, top_n |-> top_n]
          /\ fn_result' = analyze_top_categories(CatValueTable(rows), Str("cat"),
                                                 Str("value"), Num(top_n))
    /\ UNCHANGED <<engine, pipeline>>

CallTopCategories ==
    /\ fn_call = NoCall
    /\ \E rows \in CatValueRows, n \in TopNs, value_col \in {Str("value"), NaN} :
          /\ fn_call' = [fn |-> "top_categories", rows |-> rows, top_n |-> n,
                         value_col |-> value_col]
          /\ \E frame \in top_categories(CatValueTable(rows), Str("cat"), value_col, n) :
                fn_result' = [frame |-> frame]
    /\ UNCHANGED <<engine, pipeline>>

InitTopCategories == EngineIdle /\ OutsideIdle
NextTopCategories == CallAnalyzeTopCategories \/ CallTopCategories
SpecTopCategories == InitTopCategories /\ [][NextTopCategories]_vars

-----------------------------------------------------------------------------
(* data_loader: from the files of input_dir to tables, schemas and roles *)

OrdersBytes == "order_date,amount,category\n1970-01-01,10,a\n1970-01-04,5,a\n1970-01-12,1,b\n,,c\n"
CustomersBytes == "customer_id,is_churned,lifetime_value\n1,1,100\n2,0,50\n3,1,30\n4,1,\n"
InputFiles == ("orders.csv" :> OrdersBytes) @@ ("customers.csv" :> CustomersBytes)
\* the order in which the directory lists its files
FileOrder == <<"customers.csv", "orders.csv">>
Listing(dir) == SelectSeq(FileOrder, LAMBDA name : name \in DOMAIN dir)

\* pd.read_csv: a date column arrives as text (dtype object)
read_csv(bytes) ==
    CASE bytes = OrdersBytes ->
            [OrdersTable EXCEPT !.dtypes = [@ EXCEPT !.order_date = "object"]]
      [] bytes = CustomersBytes -> CustomersTable
      [] OTHER -> Raise("ParserError: Error tokenizing data")

\* the column names of the model that hold one of the markers "date", "_at", "_on"
DateLikeNames == {"order_date"}
\* pd.to_datetime(df[col]) succeeds when every non-null cell is a date
ParsesAsDates(cells) == \A i \in 1..Len(cells) : cells[i].t \in {"date", "nan"}
coerce_dates(df) ==
    [df EXCEPT !.dtypes =
        [col \in DOMAIN df.dtypes |->
            IF col \in DateLikeNames /\ ParsesAsDates(Column(df, col))
            THEN "datetime64[ns]" ELSE df.dtypes[col]]]

\* series.nunique(): NaN is not counted
nunique(cells) == Len(GroupKeys(cells))
\* the characters of the column names of the model
Chars(name) ==
    CASE name = "order_date" -> <<"o", "r", "d", "e", "r", "_", "d", "a", "t", "e">>
      [] name = "amount" -> <<"a", "m", "o", "u", "n", "t">>
      [] name = "category" -> <<"c", "a", "t", "e", "g", "o", "r", "y">>
      [] name = "customer_id" -> <<"c", "u", "s", "t", "o", "m", "e", "r", "_", "i", "d">>
      [] name = "is_churned" -> <<"i", "s", "_", "c", "h", "u", "r", "n", "e", "d">>
      [] name = "lifetime_value" -> <<"l", "i", "f", "e", "t", "i", "m", "e", "_", "v", "a", "l", "u", "e">>
      [] name = "" -> <<>>
      [] name = "ID" -> <<"I", "D">>
      [] name = "OrderId" -> <<"O", "r", "d", "e", "r", "I", "d">>
      [] name = "paid" -> <<"p", "a", "i", "d">>
      [] name = "user_id_code" -> <<"u", "s", "e", "r", "_", "i", "d", "_", "c", "o", "d", "e">>
      [] name = "idea" -> <<"i", "d", "e", "a">>
      [] name = "score" -> <<"s", "c", "o", "r", "e">>
UpperCase == <<"A", "B", "C", "D", "E", "F", "G", "H", "I", "J", "K", "L", "M",
               "N", "O", "P", "Q", "R", "S", "T", "U", "V", "W", "X", "Y", "Z">>
LowerCase == <<"a", "b", "c", "d", "e", "f", "g", "h", "i", "j", "k", "l", "m",
               "n", "o", "p", "q", "r", "s", "t", "u", "v", "w", "x", "y", "z">>
\* str.lower()
lower(chars) ==
    [i \in 1..Len(chars) |->
        IF \E k \in 1..26 : UpperCase[k] = chars[i]
        THEN LowerCase[CHOOSE k \in 1..26 : UpperCase[k] = chars[i]]
        ELSE chars[i]]
\* str.endswith(suffix)
endswith(chars, suffix) ==
    /\ Len(suffix) <= Len(chars)
    /\ SubSeq(chars, Len(chars) - Len(suffix) + 1, Len(chars)) = suffix
\* `sub in chars`
contains(chars, sub) ==
    \E i \in 0..(Len(chars) - Len(sub)) : SubSeq(chars, i + 1, i + Len(sub)) = sub
\* every column name that occurs in the model
KnownNames == {"order_date", "amount", "category", "customer_id", "is_churned",
               "lifetime_value", "", "ID", "OrderId", "paid", "user_id_code", "idea",
               "score"}
\* `"_id" in col_lower or col_lower.endswith("id")`
IdLikeChars(col_lower) ==
    contains(col_lower, <<"_", "i", "d">>) \/ endswith(col_lower, <<"i", "d">>)
IdLikeNames == {name \in KnownNames : IdLikeChars(lower(Chars(name)))}
IdLike(column_name) == column_name \in IdLikeNames
HIGH_CARDINALITY_THRESHOLD == 50
\* unique_ratio > 0.9
HighlyUnique(cells) == Len(cells) > 0 /\ 10 * nunique(cells) > 9 * Len(cells)
\* pd.api.types.is_numeric_dtype
NumericDtypes == {"int64", "float64", "bool"}

\* the column name not consulted for a numeric series
infer_series_ratio_only(dtype, cells, column_name) ==
    IF dtype = "datetime64[ns]" THEN "datetime"
    ELSE IF dtype \in NumericDtypes
    THEN (IF nunique(cells) <= 2 THEN "categorical"
          ELSE IF HighlyUnique(cells) THEN "text"
          ELSE "numeric")
    ELSE IF dtype = "object"
            /\ (\/ HighlyUnique(cells)
                \/ IdLike(column_name)
                \/ nunique(cells) > HIGH_CARDINALITY_THRESHOLD)
    THEN "text"
    ELSE "categorical"
\* the test of the column name made before the test of the distinct values
infer_series_name_first(dtype, cells, column_name) ==
    IF dtype = "datetime64[ns]" THEN "datetime"
    ELSE IF dtype \in NumericDtypes
    THEN (IF HighlyUnique(cells) \/ IdLike(column_name) THEN "text"
          ELSE IF nunique(cells) <= 2 THEN "categorical"
          ELSE "numeric")
    ELSE IF dtype = "object"
            /\ (\/ HighlyUnique(cells)
                \/ IdLike(column_name)
                \/ nunique(cells) > HIGH_CARDINALITY_THRESHOLD)
    THEN "text"
    ELSE "categorical"
\* infer_dtype(series, column_name) of a series with this dtype and these cells
infer_series(dtype, cells, column_name) ==
    IF dtype = "datetime64[ns]" THEN "datetime"
    ELSE IF dtype \in NumericDtypes
    THEN (IF nunique(cells) <= 2 THEN "categorical"
          ELSE IF HighlyUnique(cells) \/ IdLike(column_name) THEN "text"
          ELSE "numeric")
    ELSE IF dtype = "object"
            /\ (\/ HighlyUnique(cells)
                \/ IdLike(column_name)
                \/ nunique(cells) > HIGH_CARDINALITY_THRESHOLD)
    THEN "text"
    ELSE "categorical"
\* infer_dtype(df[col], column_name=col)
infer_dtype(df, column_name) ==
    infer_series(df.dtypes[column_name], Column(df, column_name), column_name)

\* SchemaInfo without the statistics, which only feed the planner's prompt
build_schema(df, filename) ==
    [filename  |-> filename,
     row_count |-> Len(df.rows),
     columns   |-> [i \in 1..Len(df.columns) |->
                      [name  |-> df.columns[i],
                       dtype |-> infer_dtype(df, df.columns[i]),
                       role  |-> ""]]]

\* load_with_schema once load_csvs has found files
TablesOf(dir) == [name \in DOMAIN dir |-> coerce_dates(read_csv(dir[name]))]
SchemasOf(dfs) == [name \in DOMAIN dfs |-> build_schema(dfs[name], name)]

\* the name of the column consulted as well
assign_column_role_by_name(column) ==
    IF IdLike(column.name) THEN "text"
    ELSE IF column.dtype = "datetime" THEN "time"
    ELSE IF column.dtype = "numeric" THEN "measure"
    ELSE IF column.dtype = "categorical" THEN "dimension"
    ELSE "text"
assign_column_role(column) ==
    IF column.dtype = "datetime" THEN "time"
    ELSE IF column.dtype = "numeric" THEN "measure"
    ELSE IF column.dtype = "categorical" THEN "dimension"
    ELSE "text"

ColumnRole(column_name, role, dtype) ==
    [column_name |-> column_name, role |-> role, dtype |-> dtype]

\* the mapping filename -> column name -> ColumnRole
assign_all_roles(schema_info) ==
    [filename \in DOMAIN schema_info |->
        [name \in {schema_info[filename].columns[i].name :
                      i \in 1..Len(schema_info[filename].columns)} |->
            LET column == CHOOSE c \in {schema_info[filename].columns[i] :
                                          i \in 1..Len(schema_info[filename].columns)} :
                              c.name = name
            IN ColumnRole(name, assign_column_role(column), column.dtype)]]
\* `column.role = role`: the schemas updated in place
WithRoles(schema_info) ==
    [filename \in DOMAIN schema_info |->
        [schema_info[filename] EXCEPT !.columns =
            [i \in 1..Len(schema_info[filename].columns) |->
                [schema_info[filename].columns[i] EXCEPT
                    !.role = assign_column_role(schema_info[filename].columns[i])]]]]

\* hashlib.sha256(bytes).hexdigest(): different bytes, different digests
Sha256(bytes) == "sha256(" \o bytes \o ")"

InputFileProfile(filename, rows, columns, sha256) ==
    [filename |-> filename, rows |-> rows, columns |-> columns, sha256 |-> sha256]

\* one profile per loaded table; the file is read again from the directory as
\* it is now, and a file that is gone leaves the digest empty
summarize_input_files(dfs, dir) ==
    [i \in 1..Len(Listing(dfs)) |->
        InputFileProfile(Listing(dfs)[i],
                         Len(dfs[Listing(dfs)[i]].rows),
                         Len(dfs[Listing(dfs)[i]].columns),
                         IF Listing(dfs)[i] \in DOMAIN dir
                         THEN Sha256(dir[Listing(dfs)[i]]) ELSE "")]

RunMetadata(run_timestamp, model, temperature, input_files) ==
    [run_timestamp |-> run_timestamp, model |-> model, temperature |-> temperature,
     input_files |-> input_files]

-----------------------------------------------------------------------------
(* llm_client.chat_json and PlannerAgent.create_plan *)

Reply(text) == [text |-> text]
\* one call of llm_client.chat outside the tool loop and what came back
Called(kind, reply) == [kind |-> kind, reply |-> reply]
PlanTextStringIds == "{\"title\": \"Revenue review\", \"objectives\": [\"Grow revenue\"], \"steps\": [{\"id\": \"s1\", \"description\": \"Summarise revenue\"}]}"
PlanTextIntegerIds == "{\"title\": \"Revenue review\", \"objectives\": [\"Grow revenue\"], \"steps\": [{\"id\": 1, \"description\": \"Summarise revenue\"}, {\"id\": 2, \"description\": \"Rank categories\"}]}"
PlanTextNoSteps == "{\"title\": \"Revenue review\", \"objectives\": [\"Grow revenue\"]}"
PlanTextArray == "[\"Summarise revenue\"]"
PlanTextProse == "Here is the plan: first summarise revenue, then rank the categories."
PlanTextCutOff == "{\"title\": \"Revenue review\", \"objectives\": [\"Grow rev"
PlanTexts == {PlanTextStringIds, PlanTextIntegerIds, PlanTextNoSteps, PlanTextArray,
              PlanTextProse, PlanTextCutOff}

\* json.loads of the texts above; a JSON array is kept under the key json_array
json_loads(raw) ==
    CASE raw = PlanTextStringIds ->
            [title |-> "Revenue review", objectives |-> <<"Grow revenue">>,
             steps |-> <<[id |-> Str("s1"), description |-> "Summarise revenue"]>>]
      [] raw = PlanTextIntegerIds ->
            [title |-> "Revenue review", objectives |-> <<"Grow revenue">>,
             steps |-> <<[id |-> Num(1), description |-> "Summarise revenue"],
                         [id |-> Num(2), description |-> "Rank categories"]>>]
      [] raw = PlanTextNoSteps ->
            [title |-> "Revenue review", objectives |-> <<"Grow revenue">>]
      [] raw = PlanTextArray -> [json_array |-> <<"Summarise revenue">>]
      [] OTHER -> Raise("JSONDecodeError")

\* a chat_json that falls back to an empty plan when the text is no JSON
chat_json_fallback(reply) ==
    IF Raises(reply) THEN reply
    ELSE IF Raises(json_loads(reply.text))
    THEN [title |-> "Analysis", objectives |-> <<>>, steps |-> <<>>]
    ELSE json_loads(reply.text)

\* chat_json: the reply of chat parsed; a JSONDecodeError becomes a ValueError
chat_json(reply) ==
    IF Raises(reply) THEN reply
    ELSE IF Raises(json_loads(reply.text))
    THEN Raise("ValueError: Failed to parse JSON from model response")
    ELSE json_loads(reply.text)

\* the before-validator of PlanStep.id that leaves the value as it came
cast_id_to_str_absent(value) == value
\* cast_id_to_str: str(value)
cast_id_to_str(value) == Str(StrOfArg(value))

\* the field id: str after its before-validator
IdValid(value) == cast_id_to_str(value).t = "str"
PlanStepValid(data) ==
    /\ {"id", "description"} \subseteq DOMAIN data
    /\ IdValid(data.id)
PlanStep(data) ==
    [id |-> cast_id_to_str(data.id).s, description |-> data.description,
     required_columns |-> None, output_type |-> "kpi_table"]

\* the AnalysisPlan built from the parsed answer
AnalysisPlan(data) ==
    IF "json_array" \in DOMAIN data
    THEN Raise("TypeError: argument after ** must be a mapping, not list")
    ELSE IF ~({"title", "objectives", "steps"} \subseteq DOMAIN data)
    THEN Raise("ValidationError: AnalysisPlan, field required")
    ELSE IF \E i \in 1..Len(data.steps) : ~PlanStepValid(data.steps[i])
    THEN Raise("ValidationError: AnalysisPlan, steps")
    ELSE [title |-> data.title, objectives |-> data.objectives,
          steps |-> [i \in 1..Len(data.steps) |-> PlanStep(data.steps[i])]]

\* create_plan given what chat answered
PlanFrom(parsed) == IF Raises(parsed) THEN parsed ELSE AnalysisPlan(parsed)
create_plan(reply) == PlanFrom(chat_json(reply))

\* what the model call of the planner can come back with
APIError == Raise("APIConnectionError")
PlanReplies == {Reply(text) : text \in PlanTexts} \cup {APIError}

-----------------------------------------------------------------------------
(* orchestrator.run_pipeline: one run, stage by stage.  The analysis stage *)
(* is the tool loop above, started with the tables the run loaded.         *)

EmptyDir == [name \in {} |-> ""]
NoPlan == [none |-> TRUE]
BriefFileText == "  Grow revenue in the north.\n"
ConfigFiles == "business_brief.txt" :> BriefFileText
\* str.strip()
strip(text) ==
    CASE text = BriefFileText -> "Grow revenue in the north."
      [] text = " Revenue is concentrated in category a.\n"
            -> "Revenue is concentrated in category a."
      [] text = " Category a drove revenue.\n" -> "Category a drove revenue."
      [] text = " Why? " -> "Why?"
      [] text \in {"  ", " \n\t"} -> ""
      [] OTHER -> text

\* what an earlier run left in the reports directory
StaleReports == ("analysis_summary.json" :> [stale |-> TRUE])
                @@ ("consulting_report.md" :> [stale |-> TRUE])
Disk(input_dir, config, reports_dir, reports) ==
    [input_dir |-> input_dir, config |-> config, reports_dir |-> reports_dir,
     reports |-> reports]
Disks == {Disk(input_dir, config, FALSE, EmptyDir) :
              input_dir \in {InputFiles, EmptyDir}, config \in {ConfigFiles, EmptyDir}}
         \cup {Disk(input_dir, config, TRUE, StaleReports) :
              input_dir \in {InputFiles, EmptyDir}, config \in {ConfigFiles, EmptyDir}}

DefaultModel == "claude-3-haiku-20240307"
DefaultTemperature == Flt(3, 10)
DefaultMaxToolRounds == 10
\* what the model is seen to ask for during a run of the pipeline
PipelineRepertoire == {GetSummaryOrders, RevenueOk}
\* datetime.now(timezone.utc).isoformat()
Clock == {"2025-01-01T09:00:00+00:00", "2025-01-01T09:05:00+00:00"}
NarrativeReplies == {Reply(" Revenue is concentrated in category a.\n"), Reply(""),
                     Reply("## Recommended actions"), APIError}

\* AnalysisResult with a field for the roles
AnalysisResultFields_with_roles ==
    {"plan", "kpis", "tables", "charts", "notes", "metadata", "column_roles"}
\* the fields class AnalysisResult declares
AnalysisResultFields == {"plan", "kpis", "tables", "charts", "notes", "metadata"}

\* BaseModel.__setattr__: a name that is no field is refused
CanSet(name) == name \in AnalysisResultFields
setattr(obj, name, value) == (name :> value) @@ obj
\* BaseModel.model_dump(): the declared fields, by name
model_dump(obj) == [f \in AnalysisResultFields |-> obj[f]]
\* json.dump(data, f, indent=2): the file holds the text of data
json_dump(data) == [json |-> data]

RECURSIVE Join(_, _)
\* sep.join(items)
Join(items, sep) ==
    IF items = <<>> THEN ""
    ELSE IF Len(items) = 1 THEN items[1]
    ELSE items[1] \o sep \o Join(Tail(items), sep)
\* items[:n]
Slice(items, n) == SubSeq(items, 1, IF Len(items) < n THEN Len(items) ELSE n)

FourDigits(k) == IF k < 10 THEN "000" \o ToString(k)
                 ELSE IF k < 100 THEN "00" \o ToString(k)
                 ELSE IF k < 1000 THEN "0" \o ToString(k) ELSE ToString(k)
ThreeDigits(k) == IF k < 10 THEN "00" \o ToString(k)
                  ELSE IF k < 100 THEN "0" \o ToString(k) ELSE ToString(k)
\* f"{w:,}" of a natural number below a million
Grouped(w) == IF w < 1000 THEN ToString(w)
              ELSE ToString(w \div 1000) \o "," \o ThreeDigits(w % 1000)
\* f"{value:,.2f}" if abs(value) >= 1 else f"{value:.4f}", for the floats
\* of the model that need no rounding
value_str(value) ==
    IF value.den = 0 THEN "nan"
    ELSE IF value.num >= value.den
    THEN Grouped(value.num \div value.den) \o "."
         \o TwoDigits(((value.num % value.den) * 100) \div value.den)
    ELSE "0." \o FourDigits((value.num * 10000) \div value.den)

\* str(value) of a float with at most one decimal place
float_str(value) ==
    IF value.den = 0 THEN "nan"
    ELSE ToString(value.num \div value.den) \o "."
         \o ToString(((value.num % value.den) * 10) \div value.den)
\* sha256[:12] of a digest, "" of the empty digest
head12(digest) == IF digest = "" THEN "" ELSE digest \o "[:12]"
\* str(item) of a cell of a table row
ItemStr(item) == IF item.t = "date" THEN "1970-01-" \o TwoDigits(item.n + 1)
                 ELSE StrOfArg(item)

\* the ellipsis U+2026 is written "..." and the dash U+2014 "--"
_render_metadata(result) ==
    <<"## Run metadata">>
    \o (IF result.metadata = None THEN <<>>
        ELSE <<"- Timestamp (UTC): " \o result.metadata.run_timestamp,
               "- Model: " \o result.metadata.model \o " @ temperature "
                   \o float_str(result.metadata.temperature)>>
             \o (IF result.metadata.input_files = <<>> THEN <<>>
                 ELSE <<"- Input files:">>
                      \o [i \in 1..Len(result.metadata.input_files) |->
                            "  - " \o result.metadata.input_files[i].filename
                            \o ": rows=" \o ToString(result.metadata.input_files[i].rows)
                            \o ", cols="
                            \o ToString(result.metadata.input_files[i].columns)
                            \o ", sha256="
                            \o head12(result.metadata.input_files[i].sha256) \o "..."]))
_render_kpis(ks) ==
    [i \in 1..Len(ks) |->
        "- " \o ks[i].name \o ": " \o value_str(ks[i].value) \o " -- " \o ks[i].explanation]
RenderTable(table) ==
    <<"### " \o table.title,
      Join(table.columns, " | "),
      Join([i \in 1..Len(table.columns) |-> "---"], " | ")>>
    \o [i \in 1..Len(table.rows) |->
          Join([j \in 1..Len(table.rows[i]) |-> ItemStr(table.rows[i][j])], " | ")]
    \o (IF table.description # "" THEN <<"_Note: " \o table.description \o "_">>
        ELSE <<>>)
    \o <<"">>
RECURSIVE _render_tables(_)
_render_tables(ts) ==
    IF ts = <<>> THEN <<>> ELSE RenderTable(Head(ts)) \o _render_tables(Tail(ts))
RecommendedActions ==
    <<"\n## Recommended actions",
      "- Prioritize initiatives indicated by the strongest patterns in measures.",
      "- Investigate temporal trends and dimensional segments for opportunities.",
      "- Validate findings with stakeholders and refine analysis as needed.">>

\* the tables section written whether or not there are tables
generate_report_all_sections(narrative, result) ==
    <<"# Consulting Report">>
    \o _render_metadata(result)
    \o <<"", strip(narrative), "\n## Data highlights">>
    \o _render_kpis(result.kpis)
    \o <<"\n## Tables">> \o _render_tables(result.tables)
    \o RecommendedActions
\* InsightsAgent.generate_report from the narrative chat returned: the list
\* `sections`, which the method returns joined by newlines
generate_report(narrative, result) ==
    <<"# Consulting Report">>
    \o _render_metadata(result)
    \o <<"", strip(narrative), "\n## Data highlights">>
    \o _render_kpis(result.kpis)
    \o (IF result.tables # <<>>
        THEN <<"\n## Tables">> \o _render_tables(result.tables) ELSE <<>>)
    \o RecommendedActions

InitPipeline ==
    /\ dataframes = EmptyDir
    /\ max_tool_rounds = 0
    /\ plan = NoPlan
    /\ repertoire = {}
    /\ pc = "idle"
    /\ round_num = 0
    /\ llm_calls = 0
    /\ response = NoResponse
    /\ messages = <<>>
    /\ all_tool_results = <<>>
    /\ executed = <<>>
    /\ cursor = 1
    /\ kpis = <<>>
    /\ tables = <<>>
    /\ returned = NoResult
    /\ raised = "none"
    /\ exit_reason = ""
    /\ runs = 0
    /\ prev = NoPrev
    /\ HarnessIdle
    /\ stage = "start"
    /\ disk \in Disks
    /\ brief = ""
    /\ schemas = EmptyDir
    /\ column_roles = EmptyDir
    /\ analysis_result = NoResult
    /\ chat_calls = <<>>
    /\ failure = "none"
    /\ started = <<>>
    /\ loaded_bytes = EmptyDir

\* the exception leaves run_pipeline
Fail(exc) == stage' = "failed" /\ failure' = exc

analyst == <<max_tool_rounds, pc, round_num, llm_calls, response, messages,
             all_tool_results, executed, cursor, kpis, tables, returned, raised,
             exit_reason, repertoire, runs, prev>>

\* line 25: load_with_schema
LoadTables ==
    /\ stage = "start"
    /\ started' = Append(started, "load")
    /\ IF DOMAIN disk.input_dir = {}
       THEN /\ Fail("FileNotFoundError: No CSV files found")
            /\ UNCHANGED <<dataframes, schemas, loaded_bytes>>
       ELSE /\ dataframes' = TablesOf(disk.input_dir)
            /\ schemas' = SchemasOf(TablesOf(disk.input_dir))
            /\ loaded_bytes' = disk.input_dir
            /\ stage' = "loaded"
            /\ UNCHANGED failure
    /\ UNCHANGED <<analyst, plan, harness, disk, brief, column_roles, analysis_result,
                   chat_calls>>

\* a run that goes on with an empty brief when the file is missing
ReadBrief_default ==
    /\ stage = "loaded"
    /\ started' = Append(started, "read_brief")
    /\ brief' = IF "business_brief.txt" \in DOMAIN disk.config
                THEN strip(disk.config["business_brief.txt"]) ELSE ""
    /\ stage' = "briefed"
    /\ UNCHANGED <<engine, harness, disk, schemas, column_roles, analysis_result,
                   chat_calls, failure, loaded_bytes>>

\* line 26: read_brief
ReadBrief ==
    /\ stage = "loaded"
    /\ started' = Append(started, "read_brief")
    /\ IF "business_brief.txt" \in DOMAIN disk.config
       THEN /\ brief' = strip(disk.config["business_brief.txt"])
            /\ stage' = "briefed"
            /\ UNCHANGED failure
       ELSE /\ Fail("FileNotFoundError: No such file or directory")
            /\ UNCHANGED brief
    /\ UNCHANGED <<engine, harness, disk, schemas, column_roles, analysis_result,
                   chat_calls, loaded_bytes>>

\* line 29: assign_all_roles
AssignRoles ==
    /\ stage = "briefed"
    /\ started' = Append(started, "assign_roles")
    /\ column_roles' = assign_all_roles(schemas)
    /\ schemas' = WithRoles(schemas)
    /\ stage' = "roled"
    /\ UNCHANGED <<engine, harness, disk, brief, analysis_result, chat_calls, failure,
                   loaded_bytes>>

\* a planner that asks again when the answer was of no use
PlanWith_retry(reply, made) ==
    /\ started' = Append(started, "plan")
    /\ chat_calls' = Append(chat_calls, Called("plan", reply))
    /\ IF Raises(made)
       THEN /\ IF Len(chat_calls) < 1 THEN UNCHANGED <<stage, failure>> ELSE Fail(made.exc)
            /\ UNCHANGED plan
       ELSE plan' = made /\ stage' = "planned" /\ UNCHANGED failure
    /\ UNCHANGED <<dataframes, analyst, harness, disk, brief, schemas, column_roles,
                   analysis_result, loaded_bytes>>

\* lines 31-32 once the model has answered with reply
PlanWith(reply, made) ==
    /\ started' = Append(started, "plan")
    /\ chat_calls' = Append(chat_calls, Called("plan", reply))
    /\ IF Raises(made)
       THEN Fail(made.exc) /\ UNCHANGED plan
       ELSE plan' = made /\ stage' = "planned" /\ UNCHANGED failure
    /\ UNCHANGED <<dataframes, analyst, harness, disk, brief, schemas, column_roles,
                   analysis_result, loaded_bytes>>

\* lines 31-32: PlannerAgent.create_plan
Plan ==
    /\ stage = "roled"
    /\ \E reply \in PlanReplies : PlanWith(reply, create_plan(reply))

\* lines 34-35: DataAnalystAgent(use_tools=True).run_analysis is entered
StartAnalysis ==
    /\ stage = "planned"
    /\ started' = Append(started, "analysis")
    /\ stage' = "analysis"
    /\ pc' = "loop"
    /\ max_tool_rounds' = DefaultMaxToolRounds
    /\ repertoire' = PipelineRepertoire
    /\ messages' = <<[role |-> "user", content |-> <<TextBlock(user_message(plan))>>]>>
    /\ runs' = 1
    /\ UNCHANGED <<dataframes, plan, round_num, llm_calls, response, all_tool_results,
                   executed, cursor, kpis, tables, returned, raised, exit_reason, prev>>
    /\ UNCHANGED <<harness, disk, brief, schemas, column_roles, analysis_result,
                   chat_calls, failure, loaded_bytes>>

\* line 35: run_analysis raised
AnalysisRaises ==
    /\ stage = "analysis"
    /\ pc = "raised"
    /\ Fail(raised)
    /\ UNCHANGED <<engine, harness, disk, brief, schemas, column_roles, analysis_result,
                   chat_calls, started, loaded_bytes>>

\* lines 35-41: run_analysis returned and the metadata is attached
AttachMetadata ==
    /\ stage = "analysis"
    /\ pc = "done"
    /\ started' = Append(started, "metadata")
    /\ \E now \in Clock :
          analysis_result' =
              [returned EXCEPT !.metadata =
                  RunMetadata(now, DefaultModel, DefaultTemperature,
                              summarize_input_files(dataframes, disk.input_dir))]
    /\ stage' = "metadata"
    /\ UNCHANGED <<engine, harness, disk, brief, schemas, column_roles, chat_calls,
                   failure, loaded_bytes>>

\* lines 45-52 with the result stored and the summary file summary
Publish(reply, stored, summary) ==
    /\ analysis_result' = stored
    /\ chat_calls' = Append(chat_calls, Called("narrative", reply))
    /\ IF Raises(reply)
       THEN /\ disk' = [disk EXCEPT !.reports_dir = TRUE,
                                    !.reports = ("analysis_summary.json" :> summary) @@ @]
            /\ started' = started \o <<"store_roles", "write_summary", "narrative">>
            /\ Fail(reply.exc)
       ELSE /\ disk' = [disk EXCEPT
                           !.reports_dir = TRUE,
                           !.reports = ("analysis_summary.json" :> summary)
                                       @@ ("consulting_report.md" :>
                                              generate_report(reply.text, stored))
                                       @@ @]
            /\ started' = started \o <<"store_roles", "write_summary", "narrative",
                                       "write_report">>
            /\ stage' = "done"
            /\ UNCHANGED failure

\* lines 43-52: the roles are stored on the result, the summary is written,
\* the narrative is asked for and the report is written
StoreRolesAndPublish ==
    /\ stage = "metadata"
    /\ IF CanSet("column_roles")
       THEN \E reply \in NarrativeReplies :
               Publish(reply, setattr(analysis_result, "column_roles", column_roles),
                       json_dump(model_dump(setattr(analysis_result, "column_roles",
                                                    column_roles))))
       ELSE /\ Fail("ValueError: \"AnalysisResult\" object has no field \"column_roles\"")
            /\ started' = Append(started, "store_roles")
            /\ UNCHANGED <<disk, analysis_result, chat_calls>>
    /\ UNCHANGED <<engine, harness, brief, schemas, column_roles, loaded_bytes>>

\* plan_only (lines 55-63) on the files of dir with the model answering reply
plan_only(dir, reply) ==
    IF DOMAIN dir.input_dir = {} THEN Raise("FileNotFoundError: No CSV files found")
    ELSE IF "business_brief.txt" \notin DOMAIN dir.config
    THEN Raise("FileNotFoundError: No such file or directory")
    ELSE create_plan(reply)

\* the other entry point: plan_only called instead of run_pipeline
PlanOnly ==
    /\ stage = "start"
    /\ stage' = "returned"
    /\ \E reply \in PlanReplies :
          /\ fn_call' = [fn |-> "plan_only", reply |-> reply]
          /\ fn_result' = [fn |-> "plan_only", outcome |-> plan_only(disk, reply),
                           model_calls |->
                               IF DOMAIN disk.input_dir = {}
                                  \/ "business_brief.txt" \notin DOMAIN disk.config
                               THEN 0 ELSE 1]
    /\ UNCHANGED <<engine, disk, brief, schemas, column_roles, analysis_result,
                   chat_calls, failure, started, loaded_bytes>>

MaxTouches == 1     \* input files changed on disk while a run is under way
Touched == {name \in DOMAIN loaded_bytes :
               name \notin DOMAIN disk.input_dir
               \/ disk.input_dir[name] # loaded_bytes[name]}
Edited(bytes) == bytes \o "1970-02-01,7,b\n"
Without(dir, name) == [other \in DOMAIN dir \ {name} |-> dir[other]]

\* somebody else edits or removes an input file between loading and metadata
\* (the tool loop reads no file, so a change during it is a change before it)
TouchInput ==
    /\ stage \in {"loaded", "briefed", "roled", "planned"}
    /\ Cardinality(Touched) < MaxTouches
    /\ \E name \in DOMAIN loaded_bytes \ Touched :
          \/ disk' = [disk EXCEPT !.input_dir[name] = Edited(@)]
          \/ disk' = [disk EXCEPT !.input_dir = Without(@, name)]
    /\ UNCHANGED <<engine, harness, stage, brief, schemas, column_roles, analysis_result,
                   chat_calls, failure, started, loaded_bytes>>

NextPipeline ==
    \/ LoadTables \/ ReadBrief \/ AssignRoles \/ Plan \/ StartAnalysis
    \/ RoundEndTurn \/ RoundToolUse \/ RoundUnexpected \/ LoopExhausted
    \/ ConvertStep \/ Return
    \/ AnalysisRaises \/ AttachMetadata \/ StoreRolesAndPublish \/ TouchInput
    \/ PlanOnly

SpecPipeline == InitPipeline /\ [][NextPipeline]_vars

-----------------------------------------------------------------------------
(* The summary on its way to disk and back: model_dump (the declared       *)
(* fields), json.dump (orchestrator.py:47), json.load (app.py:603) and     *)
(* the AnalysisResult built from it (app.py:774).  The leaves of a result are Python *)
(* values with their type; the leaves of a JSON text are literals.         *)

PyStr(x) == [py |-> "str", s |-> x, num |-> 0, den |-> 1]
PyInt(i) == [py |-> "int", s |-> "", num |-> i, den |-> 1]
\* the float n / d; nan is 0 / 0 and inf is 1 / 0
PyFloat(n, d) == [py |-> "float", s |-> "", num |-> n \div GCD(n, d),
                  den |-> d \div GCD(n, d)]
PyNaN == [py |-> "float", s |-> "", num |-> 0, den |-> 0]
PyInf == [py |-> "float", s |-> "", num |-> 1, den |-> 0]
PyNone == [py |-> "none", s |-> "", num |-> 0, den |-> 1]
\* a value its field does not accept
Invalid == [py |-> "invalid", s |-> "", num |-> 0, den |-> 1]

NumberLit(whole, point, tenths) ==
    [lit |-> "number", text |-> "", whole |-> whole, point |-> point, tenths |-> tenths]
StringLit(text) == [lit |-> "string", text |-> text, whole |-> 0, point |-> FALSE,
                    tenths |-> 0]
NaNLit == [lit |-> "NaN", text |-> "", whole |-> 0, point |-> FALSE, tenths |-> 0]
InfinityLit == [lit |-> "Infinity", text |-> "", whole |-> 0, point |-> FALSE,
                tenths |-> 0]
NullLit == [lit |-> "null", text |-> "", whole |-> 0, point |-> FALSE, tenths |-> 0]

\* a float written like an integer when it has no fraction
float_repr_short(f) ==
    IF f.den = 0 THEN (IF f.num = 0 THEN NaNLit ELSE InfinityLit)
    ELSE NumberLit(f.num \div f.den, (f.num % f.den) # 0,
                   ((f.num % f.den) * 10) \div f.den)

\* float.__repr__ as the encoder uses it, for floats with one decimal place:
\* there is always a point
float_repr(f) ==
    IF f.den = 0 THEN (IF f.num = 0 THEN NaNLit ELSE InfinityLit)
    ELSE NumberLit(f.num \div f.den, TRUE, ((f.num % f.den) * 10) \div f.den)

\* ensure_ascii: what is not ASCII is written as an escape
encode_basestring_ascii(x) == IF x = "Café" THEN "Caf\\u00e9" ELSE x
scanstring(text) == IF text = "Caf\\u00e9" THEN "Café" ELSE text

\* the JSON encoder on one leaf
Encode(v) ==
    CASE v.py = "str"   -> StringLit(encode_basestring_ascii(v.s))
      [] v.py = "int"   -> NumberLit(v.num, FALSE, 0)
      [] v.py = "float" -> float_repr(v)
      [] OTHER          -> NullLit
\* the JSON decoder on one literal
Decode(l) ==
    CASE l.lit = "string"   -> PyStr(scanstring(l.text))
      [] l.lit = "number"   -> (IF l.point THEN PyFloat(l.whole * 10 + l.tenths, 10)
                                ELSE PyInt(l.whole))
      [] l.lit = "NaN"      -> PyNaN
      [] l.lit = "Infinity" -> PyInf
      [] OTHER              -> PyNone

\* the same change made to every leaf
MapSeq(F(_), q) == [i \in 1..Len(q) |-> F(q[i])]
MapKPI(F(_), k) ==
    [name |-> F(k.name), value |-> F(k.value), explanation |-> F(k.explanation),
     related_columns |-> MapSeq(F, k.related_columns)]
MapTable(F(_), t) ==
    [title |-> F(t.title), columns |-> MapSeq(F, t.columns),
     rows |-> [i \in 1..Len(t.rows) |-> MapSeq(F, t.rows[i])],
     description |-> F(t.description)]
MapProfile(F(_), f) ==
    [filename |-> F(f.filename), rows |-> F(f.rows), columns |-> F(f.columns),
     sha256 |-> F(f.sha256)]
IsLeaf(v) == DOMAIN v = {"py", "s", "num", "den"} \/ DOMAIN v = DOMAIN NullLit
MapMetadata(F(_), m) ==
    IF IsLeaf(m) THEN F(m)
    ELSE [run_timestamp |-> F(m.run_timestamp), model |-> F(m.model),
          temperature |-> F(m.temperature),
          input_files |-> [i \in 1..Len(m.input_files) |->
                              MapProfile(F, m.input_files[i])]]
MapPlan(F(_), pl) ==
    [title |-> F(pl.title), objectives |-> MapSeq(F, pl.objectives), steps |-> <<>>]
MapResult(F(_), r) ==
    [plan |-> MapPlan(F, r.plan),
     kpis |-> [i \in 1..Len(r.kpis) |-> MapKPI(F, r.kpis[i])],
     tables |-> [i \in 1..Len(r.tables) |-> MapTable(F, r.tables[i])],
     charts |-> <<>>,
     notes |-> F(r.notes),
     metadata |-> MapMetadata(F, r.metadata)]

\* json.dumps(data, indent=2) and json.load(f)
json_dumps(data) == MapResult(Encode, data)
json_load(text) == MapResult(Decode, text)

\* pydantic's validation of one value, by the annotation of its field
as_str(v) == IF v.py = "str" THEN v ELSE Invalid
as_optional_str(v) == IF v.py \in {"str", "none"} THEN v ELSE Invalid
as_float(v) == IF v.py = "float" THEN v
               ELSE IF v.py = "int" THEN PyFloat(v.num, 1)
               ELSE IF v.py = "str" /\ v.s = "15" THEN PyFloat(15, 1)
               ELSE Invalid
as_int(v) == IF v.py = "int" THEN v
             ELSE IF v.py = "float" /\ v.den = 1 THEN PyInt(v.num)
             ELSE IF v.py = "str" /\ v.s = "15" THEN PyInt(15)
             ELSE Invalid
\* str | float | int in smart mode: a value of one of the types is kept
as_cell(v) == IF v.py \in {"str", "float", "int"} THEN v ELSE Invalid

KPIFrom(d) ==
    [name |-> as_str(d.name), value |-> as_float(d.value),
     explanation |-> as_str(d.explanation),
     related_columns |-> MapSeq(as_str, d.related_columns)]
NamedTableFrom(d) ==
    [title |-> as_str(d.title), columns |-> MapSeq(as_str, d.columns),
     rows |-> [i \in 1..Len(d.rows) |-> MapSeq(as_cell, d.rows[i])],
     description |-> as_optional_str(d.description)]
InputFileProfileFrom(d) ==
    [filename |-> as_str(d.filename), rows |-> as_int(d.rows),
     columns |-> as_int(d.columns), sha256 |-> as_str(d.sha256)]
RunMetadataFrom(d) ==
    IF IsLeaf(d) THEN (IF d.py = "none" THEN d ELSE Invalid)
    ELSE [run_timestamp |-> as_str(d.run_timestamp), model |-> as_str(d.model),
          temperature |-> as_float(d.temperature),
          input_files |-> [i \in 1..Len(d.input_files) |->
                              InputFileProfileFrom(d.input_files[i])]]
Validated(d) ==
    [plan |-> MapPlan(as_str, d.plan),
     kpis |-> [i \in 1..Len(d.kpis) |-> KPIFrom(d.kpis[i])],
     tables |-> [i \in 1..Len(d.tables) |-> NamedTableFrom(d.tables[i])],
     charts |-> <<>>,
     notes |-> as_optional_str(d.notes),
     metadata |-> RunMetadataFrom(d.metadata)]
Scrub(v) == IF v.py = "invalid" THEN PyNone ELSE v
\* the AnalysisResult built from the parsed data
AnalysisResultFrom(data) ==
    IF MapResult(Scrub, Validated(data)) # Validated(data)
    THEN Raise("ValidationError: AnalysisResult")
    ELSE Validated(data)

\* to the text of analysis_summary.json and back
RoundTrip(result) ==
    IF Raises(result) THEN result
    ELSE AnalysisResultFrom(json_load(json_dumps(model_dump(result))))

FloatSamples == {PyFloat(0, 1), PyFloat(15, 1), PyFloat(15, 2), PyFloat(3, 10), PyNaN,
                 PyInf}
CellSamples == {PyStr("a"), PyStr("Café"), PyStr("15"), PyStr("NaN"), PyInt(0),
                PyInt(15), PyFloat(15, 1), PyFloat(15, 2)}
SamplePlan == [title |-> PyStr("Revenue review"), objectives |-> <<PyStr("Grow revenue")>>,
               steps |-> <<>>]
SampleMetadata ==
    RunMetadata(PyStr("2025-01-01T09:00:00+00:00"), PyStr(DefaultModel), PyFloat(3, 10),
                <<InputFileProfile(PyStr("orders.csv"), PyInt(4), PyInt(3),
                                   PyStr(Sha256(OrdersBytes)))>>)
SampleKpis ==
    {<<>>} \cup {<<KPI(PyStr("Total Revenue"), v, PyStr("Total revenue"),
                       <<PyStr("amount")>>)>> : v \in FloatSamples}
SampleTables ==
    {<<>>} \cup {<<NamedTable(PyStr("Top category"), <<PyStr("Category"), PyStr("Total")>>,
                              <<row>>, d)>> :
                    row \in [1..2 -> CellSamples], d \in {PyNone, PyStr("by amount")}}
\* results as the analysis and the metadata stage leave them
SampleResults ==
    {[plan |-> SamplePlan, kpis |-> k, tables |-> t, charts |-> <<>>, notes |-> PyNone,
      metadata |-> m] :
        k \in SampleKpis, t \in SampleTables, m \in {PyNone, SampleMetadata}}

CallRoundTrip ==
    /\ fn_call = NoCall
    /\ \E result \in SampleResults :
          /\ fn_call' = [fn |-> "round_trip", result |-> result]
          /\ fn_result' = [fn |-> "round_trip", once |-> RoundTrip(result),
                           twice |-> RoundTrip(RoundTrip(result))]
    /\ UNCHANGED <<engine, pipeline>>

InitRoundTrip == EngineIdle /\ OutsideIdle
NextRoundTrip == CallRoundTrip
SpecRoundTrip == InitRoundTrip /\ [][NextRoundTrip]_vars

-----------------------------------------------------------------------------
(* QAAgent: the context built from a result and the answer to a question *)

MaxRoleColumns == 7 \* columns of one role in a file of the role map
MaxKpis == 12       \* KPIs of a result handed to the Q&A agent
MaxTables == 6      \* tables of a result handed to the Q&A agent

ObjectivesShown == 3
ColumnsShown == 5
KpisShown == 10
TablesShown == 5

RoleGroups == <<"measure", "dimension", "time", "text">>
\* role_groups[role] after the loop over roles.items(): the names in dict order
ColumnsOfRole(items, role) ==
    LET chosen == SelectSeq(items, LAMBDA info : info.role = role)
    IN [i \in 1..Len(chosen) |-> chosen[i].column_name]
\* every column of the role listed
col_list_unlimited(cols) == cols
\* cols[:5] and the marker for the rest
col_list(cols) ==
    Slice(cols, ColumnsShown)
    \o (IF Len(cols) > ColumnsShown
        THEN <<"(+" \o ToString(Len(cols) - ColumnsShown) \o " more)">> ELSE <<>>)
RECURSIVE RoleParts(_, _)
\* `parts`: one entry per role that has columns, in the order of role_groups
RoleParts(items, roles) ==
    IF roles = <<>> THEN <<>>
    ELSE (IF ColumnsOfRole(items, Head(roles)) # <<>>
          THEN <<Head(roles) \o "s: "
                 \o Join(col_list(ColumnsOfRole(items, Head(roles))), ", ")>>
          ELSE <<>>)
         \o RoleParts(items, Tail(roles))
RECURSIVE FileLines(_, _)
FileLines(roles, files) ==
    IF files = <<>> THEN <<>>
    ELSE (IF RoleParts(roles[Head(files)], RoleGroups) # <<>>
          THEN <<"  " \o Head(files) \o ": "
                 \o Join(RoleParts(roles[Head(files)], RoleGroups), " | ")>>
          ELSE <<>>)
         \o FileLines(roles, Tail(files))

PlanLines(pl) ==
    <<"Analysis: " \o pl.title>>
    \o (IF pl.objectives # <<>>
        THEN <<"Objectives: " \o Join(Slice(pl.objectives, ObjectivesShown), ", ")>>
        ELSE <<>>)
RoleLines(roles) ==
    IF DOMAIN roles = {} THEN <<>>
    ELSE <<"\nData structure:">> \o FileLines(roles, Listing(roles))
KpiLine(kpi) == "  - " \o kpi.name \o ": " \o value_str(kpi.value)
                \o " (" \o kpi.explanation \o ")"
KpiLines(ks) ==
    IF ks = <<>> THEN <<>>
    ELSE <<"\nKey metrics:">>
         \o [i \in 1..Len(Slice(ks, KpisShown)) |-> KpiLine(ks[i])]
         \o (IF Len(ks) > KpisShown
             THEN <<"  (and " \o ToString(Len(ks) - KpisShown) \o " more metrics)">>
             ELSE <<>>)
TableLine(table) ==
    <<"  - " \o table.title \o ": " \o ToString(Len(table.rows)) \o " rows, columns: "
      \o Join(table.columns, ", ")>>
    \o (IF table.description # "" THEN <<"    (" \o table.description \o ")">> ELSE <<>>)
RECURSIVE TableEntries(_)
TableEntries(ts) ==
    IF ts = <<>> THEN <<>> ELSE TableLine(Head(ts)) \o TableEntries(Tail(ts))
TableLines(ts) ==
    IF ts = <<>> THEN <<>>
    ELSE <<"\nAnalysis tables:">>
         \o TableEntries(Slice(ts, TablesShown))
         \o (IF Len(ts) > TablesShown
             THEN <<"  (and " \o ToString(Len(ts) - TablesShown) \o " more tables)">>
             ELSE <<>>)

\* QAAgent._build_context: the lines of the context, section by section
_build_context(result, roles) ==
    [built |-> TRUE,
     plan |-> PlanLines(result.plan),
     roles |-> RoleLines(roles),
     kpis |-> KpiLines(result.kpis),
     tables |-> TableLines(result.tables)]
NoContext == [built |-> FALSE]

\* `not question or not question.strip()`
Blank(question) == question = None \/ question.s = "" \/ strip(question.s) = ""

-----------------------------------------------------------------------------
(* What consumes a written summary: scripts/generate_reports.generate with *)
(* reporting.provenance, QAAgent.answer_question and                       *)
(* InsightsAgent.generate_report on the result held in memory.             *)

MaxTooling == 2     \* operations of the downstream tools on one summary

SummaryKpis == <<KPI("Total Revenue", Flt(16, 1), "Total revenue from all transactions",
                     <<"amount">>)>>
\* a result as a finished analysis leaves it, with and without metadata
WrittenResults ==
    {[AnalysisResult(GivenPlan, SummaryKpis, <<>>) EXCEPT !.metadata = m] :
        m \in {None,
               RunMetadata("2025-01-01T09:00:00+00:00", DefaultModel, DefaultTemperature,
                           <<InputFileProfile("orders.csv", 4, 3, Sha256(OrdersBytes))>>)}}

\* file_sha256(path): different contents, different digests
file_sha256(content) == [sha256_of |-> content]
NoUsage == [none |-> TRUE]
TokenUsages == {NoUsage, [input_tokens |-> 100, output_tokens |-> 20]}
ModelNames == {"", "claude-3-5-sonnet"}
GitCommits == {"unknown", "4f2a9c1"}
LaterClock == {"2025-02-01T10:00:00+00:00", "2025-02-01T10:05:00+00:00"}

\* the provenance entries, the optional ones only when given
Provenance(now, digest, commit, model_name, token_usage) ==
    [run_timestamp |-> now, dataset_sha256 |-> digest, git_commit |-> commit]
    @@ (IF model_name # "" THEN "model" :> model_name ELSE EmptyDir)
    @@ (IF token_usage # NoUsage THEN "token_usage" :> token_usage ELSE EmptyDir)

\* data.setdefault("metadata", {}).update(metadata): a metadata of null has
\* no update
load_summary_with_provenance(content, now, commit, model_name, token_usage) ==
    IF "t" \in DOMAIN content.json.metadata
    THEN Raise("AttributeError: 'NoneType' object has no attribute 'update'")
    ELSE [content.json EXCEPT
             !.metadata = Provenance(now, file_sha256(content), commit, model_name,
                                     token_usage) @@ @]

render_template(template_name, data) == [template |-> template_name, summary |-> data]

\* the files generate writes into output_dir from the enriched data
Generated(data, write_json) ==
    ("consulting_report.md" :> render_template("consulting_report.md.j2", data))
    @@ ("slides_outline.md" :> render_template("slides_outline.md.j2", data))
    @@ (IF write_json THEN "analysis_summary.json" :> json_dump(data) ELSE EmptyDir)

OutputDirs == {"reports", "out"}

GenerateInto(output_dir, write_json, data) ==
    /\ started' = Append(started, "generate")
    /\ IF Raises(data)
       THEN failure' = data.exc /\ UNCHANGED disk
       ELSE /\ disk' = [disk EXCEPT ![output_dir] = Generated(data, write_json) @@ @]
            /\ UNCHANGED failure
    /\ UNCHANGED <<engine, harness, stage, brief, schemas, column_roles, analysis_result,
                   chat_calls, loaded_bytes>>

\* generate(summary_path = reports/analysis_summary.json, ..., output_dir, ...)
Generate ==
    /\ stage = "written"
    /\ Len(started) < MaxTooling
    /\ \E output_dir \in OutputDirs, write_json \in BOOLEAN, now \in LaterClock,
          commit \in GitCommits, model_name \in ModelNames, token_usage \in TokenUsages :
          GenerateInto(output_dir, write_json,
                       load_summary_with_provenance(disk.reports["analysis_summary.json"],
                                                    now, commit, model_name, token_usage))

Questions == {None, Str(""), Str("  "), Str(" \n\t"), Str("What drove revenue?"),
              Str(" Why? ")}
QaReplies == {Reply(" Category a drove revenue.\n"), APIError}
Answered(text) == [fn |-> "answer_question", answer |-> text]
\* column_roles[filename].items(): the roles of a file in the order of its columns
RoleItems(roles, schema_info) ==
    [filename \in DOMAIN roles |->
        [i \in 1..Len(schema_info[filename].columns) |->
            roles[filename][schema_info[filename].columns[i].name]]]
\* the request llm_client.chat sends: the context is part of the user message
QaCalled(reply, question, context) ==
    [kind |-> "qa", reply |-> reply, question |-> question, context |-> context]

\* the early return of a blank question left out
answer_question_unguarded(question, context, reply) ==
    [calls |-> <<QaCalled(reply, question, context)>>,
     result |-> IF Raises(reply) THEN NoCall ELSE Answered(strip(reply.text)),
     exc |-> IF Raises(reply) THEN reply.exc ELSE "none"]
\* a failed request sent once more
answer_question_retry(question, context, reply) ==
    IF Blank(question)
    THEN [calls |-> <<>>, result |-> Answered("Please provide a question."),
          exc |-> "none"]
    ELSE [calls |-> IF Raises(reply)
                    THEN <<QaCalled(reply, question, context),
                           QaCalled(reply, question, context)>>
                    ELSE <<QaCalled(reply, question, context)>>,
          result |-> IF Raises(reply) THEN NoCall ELSE Answered(strip(reply.text)),
          exc |-> IF Raises(reply) THEN reply.exc ELSE "none"]
\* QAAgent.answer_question: the requests made, what is returned, what is raised;
\* `context` is what _build_context returns for the result and the role map
answer_question(question, context, reply) ==
    IF Blank(question)
    THEN [calls |-> <<>>, result |-> Answered("Please provide a question."),
          exc |-> "none"]
    ELSE [calls |-> <<QaCalled(reply, question, context)>>,
          result |-> IF Raises(reply) THEN NoCall ELSE Answered(strip(reply.text)),
          exc |-> IF Raises(reply) THEN reply.exc ELSE "none"]

AnswerWith(question, done) ==
    /\ fn_call' = [fn |-> "answer_question", question |-> question]
    /\ chat_calls' = chat_calls \o done.calls
    /\ fn_result' = done.result
    /\ failure' = IF done.exc = "none" THEN failure ELSE done.exc
AnswerAbout(context) ==
    \E question \in Questions, reply \in QaReplies :
        AnswerWith(question, answer_question(question, context, reply))
\* QAAgent.answer_question(question, analysis_result, column_roles)
AnswerQuestion ==
    /\ stage = "written"
    /\ Len(started) < MaxTooling
    /\ started' = Append(started, "answer_question")
    /\ AnswerAbout(_build_context(analysis_result, RoleItems(column_roles, schemas)))
    /\ UNCHANGED <<engine, stage, disk, brief, schemas, column_roles, analysis_result,
                   loaded_bytes>>

\* InsightsAgent.generate_report(brief, analysis_result, column_roles)
Narrate ==
    /\ stage = "written"
    /\ Len(started) < MaxTooling
    /\ started' = Append(started, "narrative")
    /\ \E reply \in NarrativeReplies :
          /\ chat_calls' = Append(chat_calls, Called("narrative", reply))
          /\ fn_call' = [fn |-> "generate_report", brief |-> brief]
          /\ IF Raises(reply)
             THEN failure' = reply.exc /\ fn_result' = NoCall
             ELSE /\ fn_result' = [fn |-> "generate_report",
                                   report_md |-> generate_report(reply.text,
                                                                 analysis_result)]
                  /\ UNCHANGED failure
    /\ UNCHANGED <<engine, stage, disk, brief, schemas, column_roles, analysis_result,
                   loaded_bytes>>

\* a summary is on disk and the result it was written from is in memory
InitDownstream ==
    /\ EngineIdle
    /\ HarnessIdle
    /\ stage = "written"
    /\ \E result \in WrittenResults :
          /\ analysis_result = result
          /\ disk = [reports |-> ("analysis_summary.json" :> json_dump(model_dump(result))),
                     out |-> EmptyDir]
    /\ brief = "Grow revenue in the north."
    /\ schemas = SchemasOf(LoadedTables)
    /\ column_roles = assign_all_roles(SchemasOf(LoadedTables))
    /\ chat_calls = <<>>
    /\ failure = "none"
    /\ started = <<>>
    /\ loaded_bytes = InputFiles

NextDownstream == Generate \/ AnswerQuestion \/ Narrate
SpecDownstream == InitDownstream /\ [][NextDownstream]_vars

-----------------------------------------------------------------------------
(* QAAgent asked about results and role maps of every size around the      *)
(* limits of the context                                                   *)

QaKpi(i) == KPI("Metric " \o ToString(i),
                IF i = 1 THEN Flt(1, 8) ELSE Flt(1250 * i + 1, 4),
                "computed from amount", <<"amount">>)
QaTable(i) == NamedTable("Table " \o ToString(i), <<"category", "revenue">>,
                         [j \in 1..(i - 1) |-> <<Str("a"), Num(j)>>],
                         IF i % 2 = 0 THEN "" ELSE "Top categories by revenue")
QaResults ==
    {AnalysisResult(GivenPlan, [i \in 1..k |-> QaKpi(i)], [i \in 1..t |-> QaTable(i)]) :
        k \in 0..MaxKpis, t \in 0..MaxTables}
\* the schema of a file with one dimension, m measures and one time column
QaSchemas(m) ==
    "orders.csv" :>
        [filename |-> "orders.csv", row_count |-> 4,
         columns |-> <<[name |-> "region", dtype |-> "categorical", role |-> ""]>>
                     \o [i \in 1..m |-> [name |-> "m" \o ToString(i), dtype |-> "numeric",
                                         role |-> ""]]
                     \o <<[name |-> "order_date", dtype |-> "datetime", role |-> ""]>>]

InitQA ==
    /\ EngineIdle
    /\ HarnessIdle
    /\ stage = "written"
    /\ analysis_result \in QaResults
    /\ disk = [reports |-> EmptyDir, out |-> EmptyDir]
    /\ brief = "Grow revenue in the north."
    /\ \/ schemas = EmptyDir /\ column_roles = EmptyDir
       \/ \E m \in 0..MaxRoleColumns :
             /\ schemas = QaSchemas(m)
             /\ column_roles = assign_all_roles(QaSchemas(m))
    /\ chat_calls = <<>>
    /\ failure = "none"
    /\ started = <<>>
    /\ loaded_bytes = InputFiles

NextQA == AnswerQuestion
SpecQA == InitQA /\ [][NextQA]_vars

-----------------------------------------------------------------------------
(* InsightsAgent asked for the report of results with and without KPIs,    *)
(* tables and metadata                                                     *)

MaxReportFacts == 2 \* KPIs and tables of a result handed to the insights agent
ReportMetadata ==
    {None,
     RunMetadata("2025-01-01T09:00:00+00:00", DefaultModel, DefaultTemperature, <<>>),
     RunMetadata("2025-01-01T09:00:00+00:00", DefaultModel, DefaultTemperature,
                 <<InputFileProfile("orders.csv", 4, 3, Sha256(OrdersBytes))>>)}
ReportResults ==
    {[AnalysisResult(GivenPlan, [i \in 1..k |-> QaKpi(i)], [i \in 1..t |-> QaTable(i)])
        EXCEPT !.metadata = m] :
        k \in 0..MaxReportFacts, t \in 0..MaxReportFacts, m \in ReportMetadata}

InitReport ==
    /\ EngineIdle
    /\ HarnessIdle
    /\ stage = "written"
    /\ analysis_result \in ReportResults
    /\ disk = [reports |-> EmptyDir, out |-> EmptyDir]
    /\ brief = "Grow revenue in the north."
    /\ schemas = SchemasOf(LoadedTables)
    /\ column_roles \in {EmptyDir, assign_all_roles(SchemasOf(LoadedTables))}
    /\ chat_calls = <<>>
    /\ failure = "none"
    /\ started = <<>>
    /\ loaded_bytes = InputFiles

NextReport == Narrate
SpecReport == InitReport /\ [][NextReport]_vars

-----------------------------------------------------------------------------
(* AnalysisPlan and PlanStep on their own: the plan built from what the    *)
(* planner's model answered, for every kind of step id                     *)

MaxSteps == 3       \* steps of a plan the model answers
\* ids as JSON gives them: strings, integers, null, a list
IdSamples == {Str("s1"), Str("1"), Str(""), Num(0), Num(1), Num(12), NaN, JList}
StepSamples == {[id |-> id, description |-> "Summarise revenue"] : id \in IdSamples}
               \cup {[description |-> "Rank categories"]}
PlanSamples == {[title |-> "Revenue review", objectives |-> <<"Grow revenue">>,
                 steps |-> steps] :
                    steps \in UNION {[1..n -> StepSamples] : n \in 0..MaxSteps}}

CallAnalysisPlan ==
    /\ fn_call = NoCall
    /\ \E data \in PlanSamples :
          /\ fn_call' = [fn |-> "AnalysisPlan", data |-> data]
          /\ fn_result' = [fn |-> "AnalysisPlan", outcome |-> AnalysisPlan(data)]
    /\ UNCHANGED <<engine, pipeline>>

InitPlanStep == EngineIdle /\ OutsideIdle
NextPlanStep == CallAnalysisPlan
SpecPlanStep == InitPlanStep /\ [][NextPlanStep]_vars

-----------------------------------------------------------------------------
(* infer_dtype and the roles on their own: a file of one column, for every *)
(* storage type, every short series and every kind of column name          *)

MaxSeriesLen == 4   \* cells of a series handed to infer_dtype
SeqsOf(values) == UNION {[1..n -> values] : n \in 0..MaxSeriesLen}
ColumnNames == {"", "amount", "score", "idea", "paid", "ID", "OrderId", "customer_id",
                "user_id_code", "order_date"}
SeriesSamples ==
    {[dtype |-> "float64", cells |-> c] : c \in SeqsOf({Num(1), Num(2), Num(3), NaN})}
    \cup {[dtype |-> "int64", cells |-> c] : c \in SeqsOf({Num(1), Num(2), Num(3)})}
    \cup {[dtype |-> "bool", cells |-> c] : c \in SeqsOf({Num(0), Num(1)})}
    \cup {[dtype |-> "object", cells |-> c] :
             c \in SeqsOf({Str("a"), Str("b"), Str("c"), NaN})}
    \cup {[dtype |-> "datetime64[ns]", cells |-> c] : c \in SeqsOf({Date(0), Date(3), NaN})}
    \cup {[dtype |-> "category", cells |-> c] : c \in SeqsOf({Str("a"), Str("b")})}
\* pd.DataFrame({column_name: series})
FrameOf(series, column_name) ==
    [columns |-> <<column_name>>,
     dtypes |-> (column_name :> series.dtype),
     rows |-> [i \in 1..Len(series.cells) |-> (column_name :> series.cells[i])]]

\* infer_dtype(series): column_name takes its default ""
CallInferDtype ==
    /\ fn_call = NoCall
    /\ \E series \in SeriesSamples :
          /\ fn_call' = [fn |-> "infer_dtype", series |-> series, column_name |-> ""]
          /\ fn_result' = [fn |-> "infer_dtype",
                           dtype |-> infer_series(series.dtype, series.cells, "")]
    /\ UNCHANGED <<engine, pipeline>>

Profiled(series, column_name, schema_info) ==
    /\ fn_call' = [fn |-> "assign_all_roles", series |-> series,
                   column_name |-> column_name]
    /\ fn_result' = [fn |-> "assign_all_roles",
                     dtype |-> schema_info["sample.csv"].columns[1].dtype,
                     column |-> WithRoles(schema_info)["sample.csv"].columns[1],
                     mapping |-> assign_all_roles(schema_info)["sample.csv"][column_name]]
\* build_schema of a file of one column, then assign_all_roles on its schema
CallAssignAllRoles ==
    /\ fn_call = NoCall
    /\ \E series \in SeriesSamples, column_name \in ColumnNames :
          Profiled(series, column_name,
                   "sample.csv" :> build_schema(FrameOf(series, column_name), "sample.csv"))
    /\ UNCHANGED <<engine, pipeline>>

InitSchema == EngineIdle /\ OutsideIdle
NextSchema == CallInferDtype \/ CallAssignAllRoles
SpecSchema == InitSchema /\ [][NextSchema]_vars

-----------------------------------------------------------------------------
(* _execute_tool on its own: what a tool call leaves of the tables it is   *)
(* handed.  The dictionary holds references: the table a tool receives is  *)
(* the table of the dictionary, so a write into it would show there.       *)

MaxToolCalls == 2   \* calls of _execute_tool made one after the other
MaxTableRows == 3   \* the tables are cut to 0..MaxTableRows rows, or left whole

\* df[col] = pd.to_datetime(df[col], errors='coerce') written into a frame
coerce_column(df, col) ==
    [df EXCEPT !.dtypes = [@ EXCEPT ![col] = "datetime64[ns]"],
               !.rows = [i \in 1..Len(df.rows) |->
                           [df.rows[i] EXCEPT ![col] =
                               IF to_datetime(df.rows[i][col]) = NaT THEN NaN
                               ELSE Date(to_datetime(df.rows[i][col]))]]]
\* df.dropna(subset=[col]): a new frame
dropna(df, col) ==
    [df EXCEPT !.rows = SelectSeq(df.rows, LAMBDA row : row[col].t # "nan")]

\* df_copy bound to the caller's table itself: the write of line 133 lands in it
TimeSeriesFrames_no_copy(df, date_column) ==
    [caller |-> coerce_column(df, date_column),
     df_copy |-> dropna(coerce_column(df, date_column), date_column)]
\* lines 132-134 of compute_time_series: the caller's table and df_copy, which
\* starts as df.copy() and takes every write
TimeSeriesFrames(df, date_column) ==
    [caller |-> df,
     df_copy |-> dropna(coerce_column(df, date_column), date_column)]

\* the call gets as far as the try block of compute_time_series
ReachesTimeSeriesBody(tool_name, tool_input, dfs) ==
    /\ tool_name = "compute_time_series"
    /\ "dataframe_name" \in DOMAIN tool_input
    /\ tool_input.dataframe_name.t = "str"
    /\ tool_input.dataframe_name.s \in DOMAIN dfs
    /\ DOMAIN FuncInput(tool_input) \subseteq {"date_column", "metric_column", "period"}
    /\ {"date_column", "metric_column"} \subseteq DOMAIN tool_input
    /\ HasColumn(dfs[tool_input.dataframe_name.s], tool_input.date_column)
    /\ HasColumn(dfs[tool_input.dataframe_name.s], tool_input.metric_column)
\* the dictionary `dataframes` after _execute_tool returned or raised: no tool
\* but compute_time_series assigns to a frame, and _execute_tool only reads
\* the dictionary (get, keys)
TablesAfter(tool_name, tool_input, dfs) ==
    IF ReachesTimeSeriesBody(tool_name, tool_input, dfs)
    THEN [dfs EXCEPT ![tool_input.dataframe_name.s] =
             TimeSeriesFrames(@, tool_input.date_column.s).caller]
    ELSE dfs

TimeSeriesNumbersAsDates ==
    ToolUse("compute_time_series",
            [dataframe_name |-> Str("orders.csv"), date_column |-> Str("amount"),
             metric_column |-> Str("amount")])
TimeSeriesNoMetric ==
    ToolUse("compute_time_series",
            [dataframe_name |-> Str("orders.csv"), date_column |-> Str("order_date"),
             metric_column |-> Str("price")])
ToolCalls == {GetSummaryCustomers, GetSummaryOrders, RevenueOk, RevenueNoColumn,
              RevenueNoDataframe, RevenueExtraArgument, RevenueListName, UnknownTool,
              TopCategories, ChurnOk, LtvOk, LtvNoColumn, TimeSeriesDaily,
              TimeSeriesWeekly, TimeSeriesNoDates, TimeSeriesNumbersAsDates,
              TimeSeriesNoMetric}
\* the tables as load_with_schema hands them over, and as read_csv alone does
TableSets ==
    {[name \in DOMAIN whole |-> [whole[name] EXCEPT !.rows = head(@, k)]] :
        whole \in {LoadedTables, [name \in DOMAIN InputFiles |-> read_csv(InputFiles[name])]},
        k \in 0..(MaxTableRows + 1)}

ExecuteTool ==
    /\ Len(executed) < MaxToolCalls
    /\ \E block \in ToolCalls :
          /\ fn_call' = [fn |-> "_execute_tool", tool_name |-> block.name,
                         tool_input |-> block.input]
          /\ fn_result' = [fn |-> "_execute_tool",
                           outcome |-> _execute_tool(block.name, block.input, dataframes)]
          /\ dataframes' = TablesAfter(block.name, block.input, dataframes)
          /\ executed' = Append(executed, <<0, block.name>>)
    /\ UNCHANGED <<max_tool_rounds, pc, round_num, llm_calls, response, messages,
                   all_tool_results, cursor, kpis, tables, returned, raised, exit_reason,
                   plan, repertoire, runs, prev, pipeline>>

InitTables ==
    /\ dataframes \in TableSets
    /\ max_tool_rounds = 0
    /\ plan = GivenPlan
    /\ repertoire = {}
    /\ pc = "idle"
    /\ round_num = 0
    /\ llm_calls = 0
    /\ response = NoResponse
    /\ messages = <<>>
    /\ all_tool_results = <<>>
    /\ executed = <<>>
    /\ cursor = 1
    /\ kpis = <<>>
    /\ tables = <<>>
    /\ returned = NoResult
    /\ raised = "none"
    /\ exit_reason = ""
    /\ runs = 0
    /\ prev = NoPrev
    /\ OutsideIdle
NextTables == ExecuteTool
SpecTables == InitTables /\ [][NextTables]_vars

-----------------------------------------------------------------------------
(* Properties *)

IsPrefix(a, b) == Len(a) <= Len(b) /\ SubSeq(b, 1, Len(a)) = a
IsToolUseBlock(b) == b.type = "tool_use"
ToolUseBlocks(content) == SelectSeq(content, IsToolUseBlock)
Failed(tool_result) == "error" \in DOMAIN tool_result.result
Succeeded(tool_result) == ~Failed(tool_result)

RECURSIVE Requested(_)
\* the tool_use blocks of the assistant messages of a history, in order
Requested(msgs) ==
    IF msgs = <<>> THEN <<>>
    ELSE (IF Head(msgs).role = "assistant" THEN ToolUseBlocks(Head(msgs).content)
          ELSE <<>>) \o Requested(Tail(msgs))

RECURSIVE FactsOf(_)
\* the facts of a whole accumulator, entry by entry
FactsOf(acc) ==
    IF acc = <<>> THEN Facts(<<>>, <<>>)
    ELSE Facts(ConvertEntry(Head(acc)).kpis \o FactsOf(Tail(acc)).kpis,
               ConvertEntry(Head(acc)).tables \o FactsOf(Tail(acc)).tables)

\* one iteration of the conversion loop is taken
Converting == pc = "convert" /\ cursor <= Len(all_tool_results) /\ cursor' = cursor + 1

(* C1: for every max_tool_rounds N the loop makes at most N calls to        *)
(* chat_with_tools, whatever the model answers; once N calls are made the   *)
(* loop is left without another call, and the conversion that follows      *)
(* ends in a return.                                                        *)
C1_AtMostNModelCalls ==
    /\ [](llm_calls <= max_tool_rounds /\ llm_calls = round_num)
    /\ [][(pc = "loop" /\ llm_calls = max_tool_rounds)
             => (pc' = "convert" /\ llm_calls' = llm_calls)]_vars
    /\ [][(pc = "convert") => (pc' \in {"convert", "done"} /\ raised' = "none")]_vars

\* a model that asked for tools in every answer, stopped by the cap
C1_Witness ==
    /\ pc = "done"
    /\ exit_reason = "exhausted"
    /\ max_tool_rounds >= 2
    /\ llm_calls = max_tool_rounds
    /\ Len(messages) = 1 + 2 * llm_calls

(* C2: the loop stops at the first answer whose stop_reason is not          *)
(* "tool_use": no tool of that answer runs, the accumulator and the         *)
(* history stay as they are, and no model call follows.                     *)
C2_StopsAtFirstNonToolUse ==
    [][/\ (llm_calls' = llm_calls + 1 /\ response'.stop_reason # "tool_use")
            => /\ all_tool_results' = all_tool_results
               /\ messages' = messages
               /\ executed' = executed
               /\ pc' = "convert"
       /\ (pc # "loop") => (llm_calls' = llm_calls)]_vars

\* after a tool round, an answer cut off by max_tokens that holds a tool_use block
C2_Witness ==
    /\ pc = "done"
    /\ response.stop_reason = "max_tokens"
    /\ ToolUseBlocks(response.content) # <<>>
    /\ Len(all_tool_results) >= 1
    /\ Len(executed) = Len(all_tool_results)

(* C3: every tool_use block the model listed is executed exactly once and   *)
(* in order; the accumulator holds one entry per block in that order, and   *)
(* every assistant message is answered by a tool_result list in that order. *)
C3_EveryBlockExecutedInOrder ==
    /\ Len(executed) = Len(Requested(messages))
    /\ \A i \in 1..Len(executed) : executed[i] = Requested(messages)[i].id
    /\ Len(all_tool_results) = Len(Requested(messages))
    /\ \A i \in 1..Len(all_tool_results) :
          /\ all_tool_results[i].tool = Requested(messages)[i].name
          /\ all_tool_results[i].input = Requested(messages)[i].input
    /\ \A m \in 1..Len(messages) :
          messages[m].role = "assistant" =>
             /\ m < Len(messages)
             /\ Len(messages[m + 1].content) = Len(ToolUseBlocks(messages[m].content))
             /\ \A i \in 1..Len(messages[m + 1].content) :
                   messages[m + 1].content[i].tool_use_id
                       = ToolUseBlocks(messages[m].content)[i].id

(* C4: when the round cap ends the loop no error is raised, and the result  *)
(* returned holds the facts of every accumulated entry, the last round's    *)
(* included, as it does when the model ends with "end_turn".                *)
C4_ExhaustionCompilesFacts ==
    /\ (exit_reason = "exhausted") =>
          /\ raised = "none"
          /\ pc \in {"convert", "done"}
          /\ llm_calls = max_tool_rounds
          /\ Len(all_tool_results) = Len(Requested(messages))
    /\ (pc = "done" /\ exit_reason \in {"exhausted", "end_turn"}) =>
          returned = AnalysisResult(plan, FactsOf(all_tool_results).kpis,
                                    FactsOf(all_tool_results).tables)

\* the cap reached while the last answer still asked for a tool that gave facts
C4_Witness ==
    /\ pc = "done"
    /\ exit_reason = "exhausted"
    /\ max_tool_rounds >= 2
    /\ Len(messages) = 1 + 2 * max_tool_rounds
    /\ ToolUseBlocks(messages[Len(messages) - 1].content) # <<>>
    /\ ConvertEntry(all_tool_results[Len(all_tool_results)]).kpis # <<>>
    /\ Len(returned.kpis) >= 4

(* C5: an accumulator entry whose result has an "error" key adds no KPI and *)
(* no table, the entries after it are still converted, and the round that   *)
(* produced it is followed by the next round.                               *)
SuccessfulEntries(acc) == SelectSeq(acc, Succeeded)
C5_ErrorEntriesSkipped ==
    /\ [](pc = "done" =>
            /\ returned.kpis = FactsOf(SuccessfulEntries(all_tool_results)).kpis
            /\ returned.tables = FactsOf(SuccessfulEntries(all_tool_results)).tables)
    /\ [][(Converting /\ Failed(all_tool_results[cursor]))
             => (kpis' = kpis /\ tables' = tables /\ pc' = "convert")]_vars
    /\ [][(/\ pc = "loop"
           /\ raised' = "none"
           /\ \E i \in (Len(all_tool_results) + 1)..Len(all_tool_results') :
                 Failed(all_tool_results'[i]))
             => pc' = "loop"]_vars

\* an error in round one, the loop went on, and round two's result became KPIs
C5_Witness ==
    /\ pc = "done"
    /\ Len(messages) = 5
    /\ Len(all_tool_results) = 2
    /\ Failed(all_tool_results[1])
    /\ ConvertEntry(all_tool_results[2]).kpis # <<>>
    /\ returned.kpis = ConvertEntry(all_tool_results[2]).kpis

(* C6: _execute_tool never raises, and its result has an "error" key when   *)
(* the dataframe is missing, the tool is unknown, a named column is missing *)
(* or the keyword arguments do not fit the tool function.                   *)
ColumnArguments == {"amount_column", "category_column", "metric_column", "churn_column",
                    "date_column", "ltv_column"}
MustFail(tool_result, dfs) ==
    \/ Get(tool_result.input, "dataframe_name", Str("")).t # "str"
    \/ Get(tool_result.input, "dataframe_name", Str("")).s \notin DOMAIN dfs
    \/ tool_result.tool \notin ToolNames
    \/ (DOMAIN FuncInput(tool_result.input))
          \ (Required(tool_result.tool) \cup Optional(tool_result.tool)) # {}
    \/ Required(tool_result.tool) \ (DOMAIN tool_result.input) # {}
    \/ \E k \in (DOMAIN tool_result.input) \cap ColumnArguments :
          ~HasColumn(dfs[tool_result.input.dataframe_name.s], tool_result.input[k])
C6_ExecuteToolNeverRaises ==
    /\ raised # ExecutionError
    /\ \A i \in 1..Len(all_tool_results) :
          MustFail(all_tool_results[i], dataframes) => Failed(all_tool_results[i])

(* C7: a run in which no tool call succeeded returns the given plan with    *)
(* empty kpis and tables and raises nothing.                                *)
C7_NoSuccessGivesEmptyResult ==
    (/\ pc \in {"done", "raised"}
     /\ \A i \in 1..Len(all_tool_results) : Failed(all_tool_results[i]))
        => /\ raised = "none"
           /\ returned = AnalysisResult(plan, <<>>, <<>>)

ConvertedTools == {"compute_revenue_summary", "analyze_top_categories",
                   "calculate_churn_metrics", "calculate_customer_ltv",
                   "compute_time_series"}
C9_FixedConversionTable ==
    [][/\ IsPrefix(kpis, kpis')
       /\ IsPrefix(tables, tables')
       /\ (Converting /\ Succeeded(all_tool_results[cursor])
             /\ all_tool_results[cursor].tool = "compute_revenue_summary")
            => /\ tables' = tables
               /\ Len(kpis') = Len(kpis) + 2
               /\ kpis'[Len(kpis) + 1].name = "Total Revenue"
               /\ kpis'[Len(kpis) + 1].value = all_tool_results[cursor].result.total_revenue
               /\ kpis'[Len(kpis) + 2].name = "Average Revenue"
               /\ kpis'[Len(kpis) + 2].value
                      = all_tool_results[cursor].result.average_revenue
       /\ (Converting /\ Succeeded(all_tool_results[cursor])
             /\ all_tool_results[cursor].tool = "analyze_top_categories")
            => /\ kpis' = kpis
               /\ Len(tables') = Len(tables) + 1
               /\ tables'[Len(tables') ].columns = <<"Category", "Total">>
       /\ (Converting /\ all_tool_results[cursor].tool \notin ConvertedTools)
            => (kpis' = kpis /\ tables' = tables)]_vars

\* a revenue summary and a top-category analysis, converted in that order
C9_Witness ==
    /\ pc = "done"
    /\ Len(all_tool_results) = 2
    /\ all_tool_results[1].tool = "compute_revenue_summary"
    /\ all_tool_results[2].tool = "analyze_top_categories"
    /\ Len(returned.kpis) = 2
    /\ returned.kpis[1].name = "Total Revenue"
    /\ returned.kpis[2].name = "Average Revenue"
    /\ Len(returned.tables) = 1
    /\ Len(returned.tables[1].rows) = 3

(* C10 as stated: every successful compute_time_series entry adds one       *)
(* table, holding the first min(10, n) buckets of its n-bucket series.      *)
FirstBuckets(ts_data) ==
    [i \in 1..(IF Len(ts_data) < 10 THEN Len(ts_data) ELSE 10) |->
        <<ts_data[i].period, ts_data[i].value>>]
ConvertingSeries ==
    /\ Converting
    /\ Succeeded(all_tool_results[cursor])
    /\ all_tool_results[cursor].tool = "compute_time_series"
C10_EverySeriesGivesTable ==
    [][ConvertingSeries
          => /\ Len(tables') = Len(tables) + 1
             /\ tables'[Len(tables')].rows
                    = FirstBuckets(all_tool_results[cursor].result.time_series)]_vars

(* C10 amended: a successful compute_time_series entry with n >= 1 buckets  *)
(* adds one table holding the first min(10, n) buckets in their order, an   *)
(* entry with an empty series adds no table, and no such table has more     *)
(* than 10 rows.                                                            *)
C10_SeriesTablesCapped ==
    [][ConvertingSeries
          => IF all_tool_results[cursor].result.time_series = <<>>
             THEN tables' = tables
             ELSE /\ Len(tables') = Len(tables) + 1
                  /\ tables'[Len(tables')].rows
                         = FirstBuckets(all_tool_results[cursor].result.time_series)
                  /\ Len(tables'[Len(tables')].rows) <= 10]_vars

\* a 12-bucket series cut to 10 rows, and an empty series that left no table
C10_Witness ==
    /\ pc = "done"
    /\ Len(all_tool_results) = 2
    /\ Succeeded(all_tool_results[1])
    /\ all_tool_results[1].tool = "compute_time_series"
    /\ Len(all_tool_results[1].result.time_series) = 12
    /\ Succeeded(all_tool_results[2])
    /\ all_tool_results[2].tool = "compute_time_series"
    /\ all_tool_results[2].result.time_series = <<>>
    /\ Len(returned.tables) = 1
    /\ Len(returned.tables[1].rows) = 10


(* C11: top-category analysis sums the metric per category and ranks the   *)
(* sums: the categories listed are the ones with the largest sums, in      *)
(* descending order of their sum, at most top_n of them; for the rows      *)
(* a:10, a:5, b:1 the first entry is "a" with total 15.  Both for          *)
(* analyze_top_categories and for the legacy top_categories with a value   *)
(* column.                                                                 *)
RECURSIVE SumWhere(_, _)
SumWhere(rows, cat) ==
    IF rows = <<>> THEN 0
    ELSE (IF Head(rows).cat = cat THEN Head(rows).value.n ELSE 0)
         + SumWhere(Tail(rows), cat)
CategoriesOf(rows) == {rows[i].cat : i \in 1..Len(rows)} \ {NaN}
RankedByValue ==
    \/ fn_call.fn = "analyze_top_categories"
    \/ (fn_call.fn = "top_categories" /\ fn_call.value_col = Str("value"))
\* the ranking returned, as [category, total] with an integer total
Ranking ==
    IF fn_call.fn = "analyze_top_categories"
    THEN [i \in 1..Len(fn_result.top_categories) |->
             [category |-> Str(fn_result.top_categories[i].category),
              total |-> fn_result.top_categories[i].total.num,
              whole |-> fn_result.top_categories[i].total.den = 1]]
    ELSE [i \in 1..Len(fn_result.frame) |->
             [category |-> fn_result.frame[i].cell,
              total |-> fn_result.frame[i].total,
              whole |-> TRUE]]
ExampleRows == <<[cat |-> Str("a"), value |-> Num(10)],
                 [cat |-> Str("a"), value |-> Num(5)],
                 [cat |-> Str("b"), value |-> Num(1)]>>
C11_SumThenRank ==
    RankedByValue =>
        /\ Len(Ranking) = (IF fn_call.top_n < Cardinality(CategoriesOf(fn_call.rows))
                           THEN fn_call.top_n
                           ELSE Cardinality(CategoriesOf(fn_call.rows)))
        /\ \A i \in 1..Len(Ranking) :
              /\ Ranking[i].category \in CategoriesOf(fn_call.rows)
              /\ Ranking[i].whole
              /\ Ranking[i].total = SumWhere(fn_call.rows, Ranking[i].category)
              /\ \A j \in (i + 1)..Len(Ranking) :
                    /\ Ranking[i].total >= Ranking[j].total
                    /\ Ranking[i].category # Ranking[j].category
              /\ \A c \in CategoriesOf(fn_call.rows) :
                    (\A j \in 1..Len(Ranking) : Ranking[j].category # c)
                        => SumWhere(fn_call.rows, c) <= Ranking[i].total
        /\ (fn_call.rows = ExampleRows /\ fn_call.top_n = DefaultTopN)
              => (Ranking[1].category = Str("a") /\ Ranking[1].total = 15)

\* the rows a:10, a:5, b:1 with top_n = 5 analysed by analyze_top_categories
C11_Witness ==
    /\ fn_call.fn = "analyze_top_categories"
    /\ fn_call.rows = ExampleRows
    /\ fn_call.top_n = DefaultTopN
    /\ Len(fn_result.top_categories) = 2
    /\ fn_result.top_categories[1] = [category |-> "a", total |-> Flt(15, 1)]
    /\ fn_result.top_categories[2] = [category |-> "b", total |-> Flt(1, 1)]

\* the files of the reports directory that this run wrote
WrittenByRun == {name \in DOMAIN disk.reports : "stale" \notin DOMAIN disk.reports[name]}

SummaryParts == {"plan", "kpis", "tables", "charts", "column_roles", "metadata"}

(* C13: a run whose analysis has returned and whose metadata is attached   *)
(* goes on to write analysis_summary.json, the serialization of the        *)
(* AnalysisResult with the parts plan, kpis, tables, charts, column_roles  *)
(* and metadata, where column_roles is the mapping computed from the       *)
(* schemas of the loaded tables.                                           *)
C13_SummaryIsFullSerialization ==
    [][stage = "metadata" =>
          /\ "analysis_summary.json" \in DOMAIN disk'.reports
          /\ "json" \in DOMAIN disk'.reports["analysis_summary.json"]
          /\ SummaryParts \subseteq DOMAIN disk'.reports["analysis_summary.json"].json
          /\ disk'.reports["analysis_summary.json"].json.column_roles
                 = assign_all_roles(schemas)]_vars

(* C14: once the metadata is attached, every entry of metadata.input_files *)
(* carries the SHA-256 of the bytes its table was loaded from, whatever    *)
(* happened to the file since, and the row and column counts of the        *)
(* loaded table.                                                           *)
C14_DigestOfLoadedBytes ==
    stage = "metadata" =>
        /\ Len(analysis_result.metadata.input_files) = Cardinality(DOMAIN dataframes)
        /\ \A i \in 1..Len(analysis_result.metadata.input_files) :
              LET profile == analysis_result.metadata.input_files[i]
              IN /\ profile.filename \in DOMAIN loaded_bytes
                 /\ profile.sha256 = Sha256(loaded_bytes[profile.filename])
                 /\ profile.rows = Len(dataframes[profile.filename].rows)
                 /\ profile.columns = Len(dataframes[profile.filename].columns)

(* C15: an AnalysisResult written as JSON and read back                    *)
(* (model_dump, json.dump, json.load, validation) is accepted            *)
(* and has the same kpis, tables and metadata, value for value and type    *)
(* for type; doing it again to what came back changes nothing.             *)
C15_RoundTripIsIdentity ==
    fn_result.fn = "round_trip" =>
        /\ ~Raises(fn_result.once)
        /\ fn_result.once.kpis = fn_call.result.kpis
        /\ fn_result.once.tables = fn_call.result.tables
        /\ fn_result.once.metadata = fn_call.result.metadata
        /\ fn_result.twice = fn_result.once

\* a result with a fractional KPI, a table row that holds the text "15" next
\* to the float 15.0, and metadata
C15_Witness ==
    /\ fn_result.fn = "round_trip"
    /\ Len(fn_call.result.kpis) = 1
    /\ fn_call.result.kpis[1].value = PyFloat(15, 2)
    /\ Len(fn_call.result.tables) = 1
    /\ fn_call.result.tables[1].rows[1] = <<PyStr("15"), PyFloat(15, 1)>>
    /\ fn_call.result.metadata = SampleMetadata
    /\ fn_result.once = fn_call.result

(* C16: once analysis_summary.json is written nothing changes the result:  *)
(* answering a question and writing the narrative leave the AnalysisResult *)
(* in memory as it is, and no tool that runs afterwards (report generation *)
(* with provenance) replaces the content of the file.                      *)
C16_WrittenSummaryNeverChanges ==
    [][stage = "written" =>
          /\ analysis_result' = analysis_result
          /\ "analysis_summary.json" \in DOMAIN disk'.reports
          /\ disk'.reports["analysis_summary.json"]
                 = disk.reports["analysis_summary.json"]]_vars

\* the stages of a run in the order they are said to come
StageOrder == <<"load", "read_brief", "assign_roles", "plan", "analysis", "metadata",
                "write_summary", "narrative", "write_report">>
\* the stages a run has entered, the storing of the roles on the result aside
StagesEntered == SelectSeq(started, LAMBDA name : name # "store_roles")
CallsOf(kind) == Len(SelectSeq(chat_calls, LAMBDA call : call.kind = kind))

InvalidJsonTexts == {PlanTextProse, PlanTextCutOff}
ParseFailure == "ValueError: Failed to parse JSON from model response"
PlanAnswerInvalid ==
    /\ CallsOf("plan") > 0
    /\ ~Raises(chat_calls[1].reply)
    /\ chat_calls[1].reply.text \in InvalidJsonTexts

(* C18: when the planner's model call answers text that is not valid JSON, *)
(* create_plan raises and the error leaves run_pipeline and plan_only: no  *)
(* plan is made in its place, the analysis and the narrative are not       *)
(* entered, no further model call is made, and nothing is written.         *)
C18_InvalidPlanEndsRun ==
    /\ PlanAnswerInvalid =>
          /\ stage = "failed"
          /\ failure = ParseFailure
          /\ plan = NoPlan
          /\ Len(chat_calls) = 1
          /\ llm_calls = 0
          /\ pc = "idle"
          /\ StagesEntered = SubSeq(StageOrder, 1, 4)
          /\ WrittenByRun = {}
          /\ disk.reports_dir = (disk.reports # EmptyDir)
    /\ (/\ fn_result.fn = "plan_only"
        /\ fn_result.model_calls = 1
        /\ ~Raises(fn_call.reply)
        /\ fn_call.reply.text \in InvalidJsonTexts) =>
          /\ fn_result.outcome = Raise(ParseFailure)
          /\ chat_calls = <<>>
          /\ WrittenByRun = {}

\* a run whose planner answered prose, with the reports directory absent
C18_Witness ==
    /\ PlanAnswerInvalid
    /\ chat_calls[1].reply.text = PlanTextProse
    /\ stage = "failed"
    /\ ~disk.reports_dir

\* the steps of the answer all name an id and a description
StepsComplete(data) ==
    \A i \in 1..Len(data.steps) : {"id", "description"} \subseteq DOMAIN data.steps[i]

(* C19: a plan whose steps all carry an id is accepted whatever the type   *)
(* of the ids: every id of the plan built is a string, a string id is kept *)
(* as it is and an integer id becomes its decimal form.                    *)
C19_StepIdsAreStrings ==
    (fn_result.fn = "AnalysisPlan" /\ StepsComplete(fn_call.data)) =>
        /\ ~Raises(fn_result.outcome)
        /\ Len(fn_result.outcome.steps) = Len(fn_call.data.steps)
        /\ \A i \in 1..Len(fn_call.data.steps) :
              /\ fn_result.outcome.steps[i].id \in STRING
              /\ fn_call.data.steps[i].id.t = "str" =>
                    fn_result.outcome.steps[i].id = fn_call.data.steps[i].id.s
              /\ fn_call.data.steps[i].id.t = "num" =>
                    fn_result.outcome.steps[i].id = ToString(fn_call.data.steps[i].id.n)

\* a plan with an integer id next to a string id
C19_Witness ==
    /\ fn_result.fn = "AnalysisPlan"
    /\ Len(fn_call.data.steps) = 2
    /\ fn_call.data.steps[1] = [id |-> Num(12), description |-> "Summarise revenue"]
    /\ fn_call.data.steps[2] = [id |-> Str("s1"), description |-> "Summarise revenue"]
    /\ ~Raises(fn_result.outcome)
    /\ fn_result.outcome.steps[1].id = "12"

\* run_pipeline was called and found no CSV file, or finds no brief
NoCsvFound == IF stage = "start" THEN DOMAIN disk.input_dir = {}
              ELSE loaded_bytes = EmptyDir
BriefMissing == "business_brief.txt" \notin DOMAIN disk.config
\* no model was called and the reports directory is as it was
NothingDone ==
    /\ chat_calls = <<>>
    /\ llm_calls = 0
    /\ pc = "idle"
    /\ plan = NoPlan
    /\ WrittenByRun = {}
    /\ disk.reports_dir = (disk.reports # EmptyDir)

(* C20: a run of run_pipeline whose input directory holds no CSV file, or  *)
(* whose brief file is missing, raises FileNotFoundError at loading or at  *)
(* reading the brief: before any model call, before the reports directory  *)
(* or any file in it is written, and without trying again.                 *)
C20_MissingInputFailsEarly ==
    (fn_call = NoCall /\ (NoCsvFound \/ BriefMissing)) =>
        /\ NothingDone
        /\ stage \in {"start", "loaded", "failed"}
        /\ IsPrefix(started, <<"load", "read_brief">>)
        /\ stage = "failed" =>
              failure = (IF NoCsvFound THEN "FileNotFoundError: No CSV files found"
                         ELSE "FileNotFoundError: No such file or directory")
        /\ (NoCsvFound /\ stage # "start") => stage = "failed"
        /\ Len(started) = 2 => stage = "failed"

\* the tables were loaded, the brief was not there, the run has raised
C20_Witness ==
    /\ fn_call = NoCall
    /\ stage = "failed"
    /\ BriefMissing
    /\ loaded_bytes = InputFiles
    /\ dataframes = LoadedTables
    /\ ~disk.reports_dir
\* a call of answer_question is the step being taken
Asked == started' = Append(started, "answer_question")

(* C21: a question that is None, empty or only whitespace is answered with  *)
(* "Please provide a question.", no request is sent to the model, so no     *)
(* context reaches it, and nothing is raised.                                *)
C21_BlankQuestionAsksNothing ==
    [][(Asked /\ Blank(fn_call'.question))
        => /\ fn_result' = Answered("Please provide a question.")
           /\ chat_calls' = chat_calls
           /\ failure' = failure]_vars
C21_Witness ==
    /\ Len(started) = 2
    /\ fn_call = [fn |-> "answer_question", question |-> Str(" \n\t")]
    /\ fn_result = Answered("Please provide a question.")
    /\ Len(chat_calls) = 1


(* C22: a question that is not blank sends exactly one request to the       *)
(* model, a plain chat request carrying the question; no tool of the        *)
(* analysis engine runs, no chat_with_tools call is made, and the result    *)
(* and the role map are what they were before the call.                     *)
C22_OneRequestPerQuestion ==
    [][(Asked /\ ~Blank(fn_call'.question))
        => /\ Len(chat_calls') = Len(chat_calls) + 1
           /\ SubSeq(chat_calls', 1, Len(chat_calls)) = chat_calls
           /\ chat_calls'[Len(chat_calls')].kind = "qa"
           /\ chat_calls'[Len(chat_calls')].question = fn_call'.question
           /\ llm_calls' = llm_calls
           /\ executed' = executed
           /\ all_tool_results' = all_tool_results
           /\ analysis_result' = analysis_result
           /\ column_roles' = column_roles]_vars
C22_Witness ==
    /\ started = <<"answer_question", "answer_question">>
    /\ fn_call = [fn |-> "answer_question", question |-> Str(" Why? ")]
    /\ failure = "APIConnectionError"
    /\ Len(chat_calls) = 2
    /\ Len(analysis_result.kpis) = MaxKpis
    /\ executed = <<>>

\* what the claim expects of the context sent for the result and role map of
\* the state: m measures m1..mm between the dimension and the time column
Smaller(a, b) == IF a < b THEN a ELSE b
MeasureNames(m) == [i \in 1..m |-> "m" \o ToString(i)]
ClaimedMeasures(m) ==
    "measures: " \o Join(MeasureNames(Smaller(m, 5)), ", ")
    \o (IF m > 5 THEN ", (+" \o ToString(m - 5) \o " more)" ELSE "")
ClaimedFileLine(m) ==
    "  orders.csv: " \o (IF m = 0 THEN "" ELSE ClaimedMeasures(m) \o " | ")
    \o "dimensions: region | times: order_date"
ClaimedTableLine(i) ==
    "  - Table " \o ToString(i) \o ": " \o ToString(i - 1)
    \o " rows, columns: category, revenue"
MetricMarkers == {"  (and " \o ToString(n) \o " more metrics)" : n \in 0..(MaxKpis + 1)}
Lines(section) == {section[i] : i \in 1..Len(section)}
RolesAsClaimed(c) ==
    IF column_roles = EmptyDir THEN c.roles = <<>>
    ELSE c.roles = <<"\nData structure:",
                     ClaimedFileLine(Len(schemas["orders.csv"].columns) - 2)>>
KpisAsClaimed(c, ks) ==
    /\ ks = <<>> => c.kpis = <<>>
    /\ ks # <<>> => c.kpis[1] = "\nKey metrics:"
    /\ \A i \in 1..Smaller(Len(ks), 10) : c.kpis[i + 1] = KpiLine(ks[i])
    /\ Len(ks) > 10 => /\ Len(c.kpis) = 12
                       /\ c.kpis[12] = "  (and " \o ToString(Len(ks) - 10)
                                       \o " more metrics)"
    /\ Len(ks) \in 1..10 => /\ Len(c.kpis) = Len(ks) + 1
                            /\ Lines(c.kpis) \cap MetricMarkers = {}
\* the lines of the section that name a table, in the order of the section
TitleLines(section, n) ==
    SelectSeq(section, LAMBDA line : line \in {ClaimedTableLine(i) : i \in 1..n})
TablesAsClaimed(c, ts) ==
    TitleLines(c.tables, Len(ts)) = [i \in 1..Smaller(Len(ts), 5) |-> ClaimedTableLine(i)]

(* C23: the context sent with a question lists, per file and role, the      *)
(* first 5 column names at most, followed by "(+N more)" with N the count   *)
(* minus 5 when there are more; the first 10 KPIs at most, followed by      *)
(* "(and N more metrics)" with N the count minus 10 when there are more;    *)
(* and the first 5 tables at most, each with its row count.  At or below a  *)
(* limit no marker appears.                                                  *)
C23_ContextIsCapped ==
    [][(Asked /\ ~Blank(fn_call'.question))
        => /\ chat_calls'[Len(chat_calls')].context.built
           /\ RolesAsClaimed(chat_calls'[Len(chat_calls')].context)
           /\ KpisAsClaimed(chat_calls'[Len(chat_calls')].context, analysis_result.kpis)
           /\ TablesAsClaimed(chat_calls'[Len(chat_calls')].context,
                              analysis_result.tables)]_vars
C23_Witness ==
    /\ Len(chat_calls) = 1
    /\ chat_calls[1].kind = "qa"
    /\ Len(analysis_result.kpis) = 12
    /\ Len(analysis_result.tables) = 6
    /\ column_roles # EmptyDir
    /\ Len(schemas["orders.csv"].columns) = 9
    /\ chat_calls[1].context.roles[2] = "  orders.csv: measures: m1, m2, m3, m4, m5, (+2 more) | dimensions: region | times: order_date"
    /\ chat_calls[1].context.kpis[2] = "  - Metric 1: 0.1250 (computed from amount)"
    /\ chat_calls[1].context.kpis[11] = "  - Metric 10: 3,125.25 (computed from amount)"
    /\ chat_calls[1].context.kpis[12] = "  (and 2 more metrics)"
    /\ chat_calls[1].context.tables[2] = "  - Table 1: 0 rows, columns: category, revenue"
    /\ chat_calls[1].context.tables[3] = "    (Top categories by revenue)"

\* the distinct non-null values of the series of the call
DistinctValues == nunique(fn_call.series.cells)
StoredAsNumbers == fn_call.series.dtype \in {"int64", "float64", "bool"}

(* C24: a column stored as numbers with at most two distinct non-null       *)
(* values is typed "categorical", never "numeric", whatever its name and    *)
(* however many of its values are distinct, and its role is "dimension",   *)
(* never "measure".                                                          *)
C24_TwoValuedNumbersAreDimensions ==
    (fn_result # NoCall /\ StoredAsNumbers /\ DistinctValues <= 2)
        => /\ fn_result.dtype = "categorical"
           /\ fn_call.fn = "assign_all_roles"
                 => /\ fn_result.mapping.role = "dimension"
                    /\ fn_result.column.role = "dimension"
C24_Witness ==
    /\ fn_call.fn = "assign_all_roles"
    /\ fn_call.column_name = "customer_id"
    /\ fn_call.series = [dtype |-> "int64", cells |-> <<Num(1), Num(2)>>]
    /\ fn_result.mapping = ColumnRole("customer_id", "dimension", "categorical")

\* the name of the column of the call ends in "id" or contains "_id"
NamedLikeAnId ==
    fn_result # NoCall
    /\ fn_call.column_name \in {"ID", "OrderId", "paid", "customer_id", "user_id_code"}

(* C25 as stated: a column whose name ends in "id", whatever the case, or    *)
(* contains "_id" is typed "text" whatever its cardinality and its storage   *)
(* type.                                                                      *)
C25_IdColumnsAreText == NamedLikeAnId => fn_result.dtype = "text"
(* C25: a column named like an id is typed "text" whatever its cardinality   *)
(* when it is stored as numbers with more than two distinct non-null values  *)
(* or as objects; stored as datetimes it is "datetime", and stored as        *)
(* numbers with at most two distinct non-null values, or as any other type,  *)
(* it is "categorical".                                                       *)
C25_IdColumnsAreTextAfterEarlierRules ==
    NamedLikeAnId
        => fn_result.dtype =
              (IF fn_call.series.dtype = "datetime64[ns]" THEN "datetime"
               ELSE IF StoredAsNumbers /\ DistinctValues > 2 THEN "text"
               ELSE IF fn_call.series.dtype = "object" THEN "text"
               ELSE "categorical")
C25_Witness ==
    /\ fn_call.fn = "assign_all_roles"
    /\ fn_call.column_name = "OrderId"
    /\ fn_call.series = [dtype |-> "float64",
                         cells |-> <<Num(1), Num(2), Num(3), Num(1)>>]
    /\ fn_result.dtype = "text"

(* C26: infer_dtype called without a column name returns "numeric" for a    *)
(* series of numbers with more than two distinct values, also when all of   *)
(* them are distinct such as [1, 2, 3], and "categorical" for a series of   *)
(* strings with few distinct values, also when all of them are distinct     *)
(* such as ["a", "b", "c"].                                                  *)
C26_UnnamedSeriesTypedByStorage ==
    fn_call.fn = "infer_dtype"
        => /\ (StoredAsNumbers /\ DistinctValues > 2) => fn_result.dtype = "numeric"
           /\ (fn_call.series.dtype = "object"
               /\ DistinctValues <= HIGH_CARDINALITY_THRESHOLD)
                 => fn_result.dtype = "categorical"

\* the fixed mapping from inferred type to role
RoleOfType == [datetime |-> "time", numeric |-> "measure", categorical |-> "dimension",
               text |-> "text"]

(* C27: after assign_all_roles the role of a column is decided by its        *)
(* inferred type alone: time for datetime, measure for numeric, dimension    *)
(* for categorical, text for text, whatever the column's name and values;   *)
(* the role stored on the schema column is the role of the returned mapping, *)
(* and the mapping entry carries the column's name and inferred type.        *)
C27_RoleIsFunctionOfType ==
    fn_call.fn = "assign_all_roles"
        => /\ fn_result.dtype \in DOMAIN RoleOfType
           /\ fn_result.mapping.role = RoleOfType[fn_result.dtype]
           /\ fn_result.column.role = fn_result.mapping.role
           /\ fn_result.column.dtype = fn_result.dtype
           /\ fn_result.mapping = ColumnRole(fn_call.column_name,
                                             RoleOfType[fn_result.dtype],
                                             fn_result.dtype)
C27_Witness ==
    /\ fn_call.fn = "assign_all_roles"
    /\ fn_call.column_name = "customer_id"
    /\ fn_call.series = [dtype |-> "bool", cells |-> <<Num(0), Num(1), Num(1)>>]
    /\ fn_result.column = [name |-> "customer_id", dtype |-> "categorical",
                           role |-> "dimension"]

\* a call of generate_report is the step being taken, and the model answered
Narrated ==
    /\ started' = Append(started, "narrative")
    /\ ~Raises(chat_calls'[Len(chat_calls')].reply)
\* the lines of the metadata section the claim expects for a result
MetadataLines(result) ==
    IF result.metadata = None THEN 1
    ELSE IF result.metadata.input_files = <<>> THEN 3
    ELSE 4 + Len(result.metadata.input_files)
\* the lines of a report that are titles of the tables of the result
TitlesIn(report, n) ==
    SelectSeq(report, LAMBDA line : line \in {"### Table " \o ToString(i) : i \in 1..n})
\* the sections in the order of the claim; at is the place of the narrative
SectionsInOrder(report, result, narrative, at, with_tables) ==
    /\ report[1] = "# Consulting Report"
    /\ report[2] = "## Run metadata"
    /\ report[at - 1] = ""
    /\ report[at] = narrative
    /\ report[at + 1] = "\n## Data highlights"
    /\ \A i \in 1..Len(result.kpis) :
          report[at + 1 + i] = _render_kpis(result.kpis)[i]
    /\ IF with_tables
       THEN /\ Len(report) >= at + 2 + Len(result.kpis) + 4
            /\ report[at + 2 + Len(result.kpis)] = "\n## Tables"
            /\ TitlesIn(SubSeq(report, at + 3 + Len(result.kpis), Len(report) - 4),
                        Len(result.tables))
                 = [i \in 1..Len(result.tables) |-> "### Table " \o ToString(i)]
       ELSE Len(report) = at + 1 + Len(result.kpis) + 4
    /\ SubSeq(report, Len(report) - 3, Len(report))
         = <<"\n## Recommended actions",
             "- Prioritize initiatives indicated by the strongest patterns in measures.",
             "- Investigate temporal trends and dimensional segments for opportunities.",
             "- Validate findings with stakeholders and refine analysis as needed.">>
OneNarrativeRequest ==
    /\ Len(chat_calls') = Len(chat_calls) + 1
    /\ chat_calls'[Len(chat_calls')].kind = "narrative"

(* C28 as stated: for every result, one without KPIs, tables or metadata     *)
(* included, and every narrative the model returns, the report holds in      *)
(* this order the metadata header, the narrative, the KPI section, the       *)
(* tables section and the three recommended actions, and one model request   *)
(* is made.                                                                   *)
C28_AllSectionsAlways ==
    [][Narrated
        => /\ OneNarrativeRequest
           /\ SectionsInOrder(fn_result'.report_md, analysis_result,
                              strip(chat_calls'[Len(chat_calls')].reply.text),
                              MetadataLines(analysis_result) + 3, TRUE)]_vars
(* C28: for every result and every narrative the model returns, the report   *)
(* holds in this order the metadata header, the narrative, the KPI section   *)
(* with one line per KPI, the tables section when the result has a table     *)
(* and no tables section when it has none, and the three recommended         *)
(* actions; one model request is made.                                        *)
C28_SectionsInOrder ==
    [][Narrated
        => /\ OneNarrativeRequest
           /\ SectionsInOrder(fn_result'.report_md, analysis_result,
                              strip(chat_calls'[Len(chat_calls')].reply.text),
                              MetadataLines(analysis_result) + 3,
                              analysis_result.tables # <<>>)]_vars
C28_Witness ==
    /\ started = <<"narrative">>
    /\ analysis_result.tables = <<>>
    /\ analysis_result.kpis = <<>>
    /\ analysis_result.metadata = None
    /\ fn_result = [fn |-> "generate_report",
                    report_md |-> <<"# Consulting Report", "## Run metadata", "",
                                    "## Recommended actions", "\n## Data highlights">>
                                  \o RecommendedActions]

(* C29: a call of _execute_tool, whatever the tool and its input and        *)
(* whether it returns facts, returns an error or raises, leaves every table *)
(* of `dataframes` as it was: no table is added, removed, replaced or       *)
(* changed, compute_time_series included.                                    *)
C29_TablesAreReadOnly ==
    [][executed' # executed
        => /\ DOMAIN dataframes' = DOMAIN dataframes
           /\ \A name \in DOMAIN dataframes : dataframes'[name] = dataframes[name]]_vars
C29_Witness ==
    /\ Len(executed) = 2
    /\ executed[1] = <<0, "compute_time_series">>
    /\ fn_call.fn = "_execute_tool"
    /\ fn_call.tool_input = TimeSeriesNoDates.input
    /\ "time_series" \in DOMAIN fn_result.outcome
    /\ fn_result.outcome.time_series = <<>>
    /\ dataframes["orders.csv"].dtypes.order_date = "object"
    /\ Len(dataframes["orders.csv"].rows) = 3

\* the tool_result list answers the tool_use blocks of the content, one each,
\* in order and by id
Answers(tool_results, content) ==
    /\ Len(tool_results) = Len(ToolUseBlocks(content))
    /\ \A i \in 1..Len(tool_results) :
          /\ tool_results[i].type = "tool_result"
          /\ tool_results[i].tool_use_id = ToolUseBlocks(content)[i].id
\* a history as the model accepts it after k tool rounds
WellFormedHistory(msgs, k) ==
    /\ Len(msgs) = 1 + 2 * k
    /\ msgs[1] = [role |-> "user", content |-> <<TextBlock(user_message(plan))>>]
    /\ \A i \in 1..Len(msgs) :
          msgs[i].role = (IF i % 2 = 1 THEN "user" ELSE "assistant")
    /\ \A j \in 1..k : Answers(msgs[2 * j + 1].content, msgs[2 * j].content)

(* C30: the history sent with every call of chat_with_tools starts with the  *)
(* initial user message, alternates assistant and user messages, ends with   *)
(* a user message, holds 1 + 2k messages after k tool rounds, and each       *)
(* tool-result message holds one tool_result per tool_use block of the       *)
(* assistant message before it, with that block's id, in order.              *)
C30_HistoryWellFormedAtEveryCall ==
    [][llm_calls' = llm_calls + 1 => WellFormedHistory(messages, llm_calls)]_vars
\* the second call was made with the first round in the history
C30_Witness ==
    /\ llm_calls = 2
    /\ Len(messages) = 5
    /\ Len(ToolUseBlocks(messages[2].content)) = 1
    /\ messages[3].content
         = <<[type |-> "tool_result", tool_use_id |-> "toolu_0_1",
              content |-> JsonDumps(error("Column 'price' not found in dataframe"))]>>
    /\ Len(messages[5].content) = 1
    /\ messages[5].content[1].tool_use_id = "toolu_1_1"

====
